---- MODULE Spec2Model ----
(***************************************************************************)
(* Model of the documentation sync scripts of Rivulet                      *)
(* (docs/readthedocs/sync_docs.py and friends).                            *)
(*                                                                         *)
(* Text is a sequence of lexemes (TLA+ strings).  Every character the      *)
(* regular expressions of the source single out  ( [ ] ( ) ! " < > / . -   *)
(* newline, blank )  is a lexeme of its own, or sits at the edge of a      *)
(* literal lexeme where the literal fixes it, so that a character class    *)
(* such as [^\]] is a class of lexemes and a literal is a run of lexemes.  *)
(* The concatenation of the lexemes is the text the Python code sees.      *)
(***************************************************************************)
EXTENDS Integers, Sequences, FiniteSets, TLC

VARIABLES
    doc,        \* the input text handed to the function under study
    fs,         \* the files that exist below REPO_ROOT (normalized paths)
    content,    \* the text the function returns
    marked,     \* the text after the first re.sub of the function under study
    pc,         \* position: the call that is pending, "done" after it
    url,        \* the URL handed to is_dynamic_badge
    verdict,    \* what is_dynamic_badge returned: "none" before the call
    runs,       \* how many times convert_github_to_mkdocs has run on the text
    before,     \* the text the last run of convert_github_to_mkdocs was given
    trail,      \* the statements of convert_github_to_mkdocs executed so far
    src,        \* sync_docs: what each source of the Sync Map holds
    disk,       \* the files a run writes: what each of them holds
    pre,        \* what the files a run writes held before the run
    log,        \* the messages printed so far
    item,       \* the position of the for loop in its list
    converted_content,  \* sync_docs: the local of that name
    new_content,        \* generate_all: the local of that name
    changes_detected,   \* generate_all: the local of that name
    check_only,         \* generate_all: the argument of that name
    registry,   \* generate_all: what load_registry and validate come to
    ret         \* generate_all: the value returned, -1 while it runs

vars ==
    <<doc, fs, content, marked, pc, url, verdict, runs, before, trail,
      src, disk, pre, log, item, converted_content, new_content,
      changes_detected, check_only, registry, ret>>

----------------------------------------------------------------------------
(* Bounds of the model *)

MaxLines == 2
MaxUrlParts == 2
MaxBlocks == 2
MaxRuns == 2
MaxCellLines == 3

----------------------------------------------------------------------------
(* Python string primitives on lexeme sequences *)

NL == "\n"

IsSpace(t) == t \in {" ", NL}

RECURSIVE LStrip(_)
LStrip(s) == IF s = <<>> THEN s
             ELSE IF IsSpace(Head(s)) THEN LStrip(Tail(s)) ELSE s

RECURSIVE RStrip(_)
RStrip(s) == IF s = <<>> THEN s
             ELSE IF IsSpace(s[Len(s)]) THEN RStrip(SubSeq(s, 1, Len(s) - 1)) ELSE s

Strip(s) == RStrip(LStrip(s))

\* str.find(t, i): the first position >= i holding lexeme t, 0 when there is none
FirstAt(s, i, t) ==
    IF \E j \in i..Len(s) : s[j] = t
    THEN CHOOSE j \in i..Len(s) : s[j] = t /\ \A k \in i..(j - 1) : s[k] # t
    ELSE 0

\* str.rfind(t, 0, i): the last position < i holding lexeme t, 0 when there is none
LastBefore(s, i, t) ==
    IF \E j \in 1..(i - 1) : s[j] = t
    THEN CHOOSE j \in 1..(i - 1) : s[j] = t /\ \A k \in (j + 1)..(i - 1) : s[k] # t
    ELSE 0

\* str.split(sep): the pieces between the occurrences of lexeme sep
RECURSIVE Split(_, _)
Split(s, sep) ==
    LET j == FirstAt(s, 1, sep)
    IN  IF j = 0 THEN <<s>>
        ELSE <<SubSeq(s, 1, j - 1)>> \o Split(SubSeq(s, j + 1, Len(s)), sep)

\* sep.join(parts)
RECURSIVE Join(_, _)
Join(parts, sep) ==
    IF parts = <<>> THEN <<>>
    ELSE IF Len(parts) = 1 THEN parts[1]
    ELSE parts[1] \o sep \o Join(Tail(parts), sep)

\* needle in s
Contains(s, needle) ==
    \E i \in 1..(Len(s) - Len(needle) + 1) :
        SubSeq(s, i, i + Len(needle) - 1) = needle

----------------------------------------------------------------------------
(* Paths.  A path is a sequence of segments; a segment is the sequence of  *)
(* lexemes between two "/".  REPO_ROOT is the empty path, and every path   *)
(* is taken relative to it; REPO_ROOT is its own canonical form.           *)

\* pathlib: REPO_ROOT / text drops empty segments and "." segments
PathParts(p) ==
    SelectSeq(Split(p, "/"), LAMBDA seg : seg # <<>> /\ seg # <<".">>)

\* Path.resolve(): ".." removes the segment before it; above REPO_ROOT the
\* ".." stays, naming a place outside the repository
RECURSIVE Collapse(_, _)
Collapse(segs, acc) ==
    IF segs = <<>> THEN acc
    ELSE IF Head(segs) = <<"..">>
         THEN Collapse(Tail(segs),
                       IF acc # <<>> /\ acc[Len(acc)] # <<"..">>
                       THEN SubSeq(acc, 1, Len(acc) - 1)
                       ELSE Append(acc, <<"..">>))
         ELSE Collapse(Tail(segs), Append(acc, Head(segs)))

\* (REPO_ROOT / link_path).resolve(); an absolute link_path replaces
\* REPO_ROOT, which the leading segment <<"/">> records
Resolve(p) ==
    IF p # <<>> /\ p[1] = "/"
    THEN <<<<"/">>>> \o SelectSeq(Collapse(PathParts(p), <<>>), LAMBDA seg : seg # <<"..">>)
    ELSE Collapse(PathParts(p), <<>>)

\* str.lower() and str.replace('.', '-'), lexeme by lexeme
LowerTok(t) ==
    CASE t = "Rivulet." -> "rivulet."
      [] t = "Core" -> "core"
      [] t = "Sql" -> "sql"
      [] t = "SqlServer" -> "sqlserver"
      [] t = "README.md" -> "readme.md"
      [] t = "Docs" -> "docs"
      [] t = "GitHub" -> "github"
      [] t = "NuGet" -> "nuget"
      [] t = "Shields" -> "shields"
      [] OTHER -> t

DashTok(t) ==
    CASE t = "." -> "-"
      [] t = "rivulet." -> "rivulet-"
      [] t = "readme.md" -> "readme-md"
      [] OTHER -> t

Lower(s) == [i \in 1..Len(s) |-> LowerTok(s[i])]
DotsToDashes(s) == [i \in 1..Len(s) |-> DashTok(s[i])]

----------------------------------------------------------------------------
(* The Sync Map *)

\* packages.yml: the records build_sync_files reads
Packages ==
    { [name |-> <<"Rivulet.", "Core">>, path |-> <<"src", "/", "Rivulet.", "Core">>],
      [name |-> <<"Rivulet.", "Sql", ".", "SqlServer">>,
       path |-> <<"src", "/", "Rivulet.", "Sql", ".", "SqlServer">>] }

\* the root documents and the benchmark README
RootEntries ==
    { [source |-> <<<<"README.md">>>>, dest |-> <<"index.md">>, convert |-> TRUE],
      [source |-> <<<<"LICENSE.txt">>>>, dest |-> <<"license.md">>, convert |-> FALSE],
      [source |-> <<<<"CONTRIBUTING.md">>>>, dest |-> <<"CONTRIBUTING.md">>, convert |-> FALSE],
      [source |-> <<<<"SECURITY.md">>>>, dest |-> <<"SECURITY.md">>, convert |-> FALSE],
      [source |-> <<<<"CODE_OF_CONDUCT.md">>>>, dest |-> <<"CODE_OF_CONDUCT.md">>, convert |-> FALSE],
      [source |-> <<<<"ROADMAP.md">>>>, dest |-> <<"ROADMAP.md">>, convert |-> FALSE],
      [source |-> <<<<"tests">>, <<"Rivulet.", "Benchmarks">>, <<"README.md">>>>,
       dest |-> <<"benchmarks.md">>, convert |-> FALSE] }

\* one entry per package: source path/README.md, destination
\* packages/<name lowered, dots to dashes>.md, copied as is
PackageEntries ==
    { [source |-> PathParts(p.path \o <<"/", "README.md">>),
       dest |-> <<"packages", "/">> \o DotsToDashes(Lower(p.name)) \o <<".md">>,
       convert |-> FALSE] : p \in Packages }

SYNC_FILES == RootEntries \cup PackageEntries

SyncKeys == { e.source : e \in SYNC_FILES }

\* dest_path.relative_to(DOCS_DIR) of the entry of a key
SyncDest(key) == (CHOOSE e \in SYNC_FILES : e.source = key).dest

----------------------------------------------------------------------------
(* Link Resolver: convert_markdown_links *)

SENT_LINE == "___REMOVE_THIS_LINE___"
SENT_LINK == "___REMOVE_THIS_LINK___"

\* r'(?<!\!)\[([^\]]+)\]\(([^\)]+)\)' tried at position i: <<rb, rp>>, the
\* positions of the "]" and of the ")" of the match, <<0, 0>> when none
LinkMatch(s, i) ==
    LET rb == FirstAt(s, i + 1, "]")
        rp == FirstAt(s, rb + 2, ")")
    IN  IF s[i] # "[" \/ (i > 1 /\ s[i - 1] = "!") THEN <<0, 0>>
        ELSE IF rb = 0 \/ rb = i + 1 THEN <<0, 0>>
        ELSE IF rb + 1 > Len(s) \/ s[rb + 1] # "(" THEN <<0, 0>>
        ELSE IF rp = 0 \/ rp = rb + 2 THEN <<0, 0>>
        ELSE <<rb, rp>>

\* content[line_start:start_pos]: the text of the line before position i
LinePrefix(s, i) == SubSeq(s, LastBefore(s, i, NL) + 1, i - 1)

\* a slip: any text before the link makes the line a list item
IsListPrefix_anytext(prefix) == Strip(prefix) # <<>>

\* line_prefix.strip().startswith('-')
IsListPrefix(prefix) == Strip(prefix) # <<>> /\ Strip(prefix)[1] = "-"

\* link_path.startswith(('http://', 'https://'))
IsExternal(link_path) == link_path[1] \in {"http://", "https://"}

\* link_path.startswith('#')
IsAnchor(link_path) == link_path[1] = "#"

\* Special case: LICENSE (without extension) -> LICENSE.txt
LicensePath(link_path) ==
    IF link_path = <<"LICENSE">> THEN <<"LICENSE.txt">> ELSE link_path

\* a slip: the existence test comes before the Sync Map lookup
convert_link_existsfirst(s, i, rb, rp, files) ==
    LET whole == SubSeq(s, i, rp)
        link_text == SubSeq(s, i + 1, rb - 1)
        link_path == SubSeq(s, rb + 2, rp - 1)
        linked_file == Resolve(LicensePath(link_path))
        in_list == IsListPrefix(LinePrefix(s, i))
    IN  IF IsExternal(link_path) THEN whole
        ELSE IF IsAnchor(link_path) THEN whole
        ELSE IF linked_file \in files
             THEN IF in_list THEN <<SENT_LINE>> ELSE <<SENT_LINK>>
        ELSE IF linked_file \in SyncKeys
             THEN <<"[">> \o link_text \o <<"]", "(">> \o SyncDest(linked_file) \o <<")">>
        ELSE IF in_list THEN <<SENT_LINE>>
        ELSE whole

\* a slip: a link to a file that does not exist is removed inline, as a
\* link to an un-synced file is
convert_link_missingremoved(s, i, rb, rp, files) ==
    LET whole == SubSeq(s, i, rp)
        link_text == SubSeq(s, i + 1, rb - 1)
        link_path == SubSeq(s, rb + 2, rp - 1)
        linked_file == Resolve(LicensePath(link_path))
        in_list == IsListPrefix(LinePrefix(s, i))
    IN  IF IsExternal(link_path) THEN whole
        ELSE IF IsAnchor(link_path) THEN whole
        ELSE IF linked_file \in SyncKeys
             THEN <<"[">> \o link_text \o <<"]", "(">> \o SyncDest(linked_file) \o <<")">>
        ELSE IF in_list THEN <<SENT_LINE>> ELSE <<SENT_LINK>>

\* the replacement of the match s[i..rp] whose "]" is at rb; files are the
\* paths that exist on disk
convert_link(s, i, rb, rp, files) ==
    LET whole == SubSeq(s, i, rp)
        link_text == SubSeq(s, i + 1, rb - 1)
        link_path == SubSeq(s, rb + 2, rp - 1)
        linked_file == Resolve(LicensePath(link_path))
        in_list == IsListPrefix(LinePrefix(s, i))
    IN  IF IsExternal(link_path) THEN whole
        ELSE IF IsAnchor(link_path) THEN whole
        ELSE IF linked_file \in SyncKeys
             THEN <<"[">> \o link_text \o <<"]", "(">> \o SyncDest(linked_file) \o <<")">>
        ELSE IF linked_file \in files
             THEN IF in_list THEN <<SENT_LINE>> ELSE <<SENT_LINK>>
        ELSE IF in_list THEN <<SENT_LINE>>
        ELSE whole

\* re.sub(link pattern, convert_link, content): leftmost matches, none
\* overlapping, each replaced by what convert_link returns for it
\* the first position >= i where the pattern matches, 0 when none
NextLink(s, i) ==
    LET hits == { j \in i..Len(s) : LinkMatch(s, j)[2] # 0 }
    IN  IF hits = {} THEN 0 ELSE CHOOSE j \in hits : \A k \in hits : j <= k

RECURSIVE MarkLinksFrom(_, _, _)
MarkLinksFrom(s, i, files) ==
    LET j == NextLink(s, i)
        m == LinkMatch(s, j)
    IN  IF j = 0 THEN SubSeq(s, i, Len(s))
        ELSE SubSeq(s, i, j - 1) \o convert_link(s, j, m[1], m[2], files)
                 \o MarkLinksFrom(s, m[2] + 1, files)

MarkLinks(s, files) == MarkLinksFrom(s, 1, files)

\* re.sub(r'^.*___REMOVE_THIS_LINE___.*\n', '', content, flags=re.MULTILINE):
\* every line that holds the marker and ends in a newline goes, newline
\* included; the text after the last newline is no match
RemoveMarkedLines(s) ==
    LET parts == Split(s, NL)
        n == Len(parts)
        keep(l) == \A k \in 1..Len(l) : l[k] # SENT_LINE
    IN  Join(SelectSeq(SubSeq(parts, 1, n - 1), keep) \o <<parts[n]>>, <<NL>>)

\* re.sub(r'___REMOVE_THIS_LINK___', '', content)
RemoveLinkMarks(s) == SelectSeq(s, LAMBDA t : t # SENT_LINK)

convert_markdown_links(s, files) ==
    RemoveLinkMarks(RemoveMarkedLines(MarkLinks(s, files)))

----------------------------------------------------------------------------
(* Badge Classifier: is_dynamic_badge.  A URL is a sequence of lexemes    *)
(* that are the words of the lists below or cannot overlap them.           *)

static_domains ==
    { <<"opensource", ".org">>, <<"dotnet", ".microsoft", ".com">>, <<"nuget", ".org">> }

\* a slip: the security-scorecard service is left out
dynamic_patterns_noscorecard ==
    { <<"github", ".com", "/">>, <<"codecov", ".io", "/">> }

dynamic_patterns ==
    { <<"github", ".com", "/">>, <<"codecov", ".io", "/">>, <<"scorecard", ".dev", "/">> }

\* a slip: the documentation-build keyword is left out
dynamic_shields_patterns_noreadthedocs == { <<"github">>, <<"codecov">> }

dynamic_shields_patterns == { <<"readthedocs">>, <<"github">>, <<"codecov">> }

\* 'shields.io' in url_lower or 'img.shields.io' in url_lower
IsShields(u) == Contains(u, <<"shields", ".io">>) \/ Contains(u, <<"img.", "shields", ".io">>)

\* a slip: the deny-list is consulted before the allow-list
is_dynamic_badge_denyfirst(u) ==
    LET url_lower == Lower(u)
    IN  IF \E pattern \in dynamic_patterns : Contains(url_lower, pattern) THEN TRUE
        ELSE IF \E domain \in static_domains : Contains(url_lower, domain) THEN FALSE
        ELSE IF IsShields(url_lower)
             THEN \E pattern \in dynamic_shields_patterns : Contains(url_lower, pattern)
        ELSE FALSE

\* TRUE: the badge is dynamic and is removed
is_dynamic_badge(u) ==
    LET url_lower == Lower(u)
    IN  IF \E domain \in static_domains : Contains(url_lower, domain) THEN FALSE
        ELSE IF \E pattern \in dynamic_patterns : Contains(url_lower, pattern) THEN TRUE
        ELSE IF IsShields(url_lower)
             THEN \E pattern \in dynamic_shields_patterns : Contains(url_lower, pattern)
        ELSE FALSE

----------------------------------------------------------------------------
(* Lexeme classes: which lexemes hold a character a pattern excludes.      *)
(* A lexeme holds "<" only as its first character and ">" only as its last. *)

DIV_CENTER == "<div align=\"center\">"
DIV_END == "</div>"
P_CENTER == "<p align=\"center\">"
P_END == "</p>"
DIV_BADGES == "<div class=\"badges\" markdown=\"1\" align=\"center\">"
A_HREF == "<a href=\""
A_TARGET_HREF == "<a target=\"_blank\" href=\""
QUOTE_GT == "\">"
QUOTE == "\""
IMG == "<img"
SRC == "src=\""
ALT == "alt=\""
A_END == "</a>"
BR == "<br/>"
TD == "<td>"
TD_END == "</td>"
STRONG == "<strong>"
STRONG_END == "</strong>"
SPAN_SMALL == "<span style=\"font-size: 0.9em; font-weight: 600;\">"
SPAN_END == "</span>"
CI_CD == "CI/CD Pipeline"

\* the lexemes that hold "<"
HasLt(t) ==
    t \in {"<", DIV_CENTER, DIV_END, P_CENTER, P_END, DIV_BADGES, A_HREF, A_TARGET_HREF, IMG,
           A_END, BR, TD, TD_END, STRONG, STRONG_END, SPAN_SMALL, SPAN_END}

\* the lexemes that hold ">"
HasGt(t) ==
    t \in {DIV_CENTER, DIV_END, P_CENTER, P_END, DIV_BADGES, QUOTE_GT, ">",
           A_END, BR, TD, TD_END, STRONG, STRONG_END, SPAN_SMALL, SPAN_END}

\* the lexemes that hold a double quote
HasQuote(t) ==
    t \in {DIV_CENTER, P_CENTER, DIV_BADGES, A_HREF, A_TARGET_HREF, QUOTE_GT, QUOTE,
           SRC, ALT, SPAN_SMALL}

\* the lexemes that hold "/"
HasSlash(t) ==
    t \in {"/", "https://", "http://", DIV_END, P_END, A_END, BR, TD_END, STRONG_END,
           SPAN_END, CI_CD}

\* the first position >= i whose lexeme satisfies the class, 0 when none
FirstHasGt(s, i) ==
    IF \E j \in i..Len(s) : HasGt(s[j])
    THEN CHOOSE j \in i..Len(s) : HasGt(s[j]) /\ \A k \in i..(j - 1) : ~HasGt(s[k])
    ELSE 0

FirstHasLt(s, i) ==
    IF \E j \in i..Len(s) : HasLt(s[j])
    THEN CHOOSE j \in i..Len(s) : HasLt(s[j]) /\ \A k \in i..(j - 1) : ~HasLt(s[k])
    ELSE 0

FirstHasQuote(s, i) ==
    IF \E j \in i..Len(s) : HasQuote(s[j])
    THEN CHOOSE j \in i..Len(s) : HasQuote(s[j]) /\ \A k \in i..(j - 1) : ~HasQuote(s[k])
    ELSE 0

\* \s*: the first position >= i that holds no whitespace (Len(s) + 1 at the end)
RECURSIVE SkipSpace(_, _)
SkipSpace(s, i) ==
    IF i <= Len(s) /\ IsSpace(s[i]) THEN SkipSpace(s, i + 1) ELSE i

\* s[i] = t, and FALSE beyond the end
At(s, i, t) == i >= 1 /\ i <= Len(s) /\ s[i] = t

----------------------------------------------------------------------------
(* Div Block Processor: process_center_div and its re.sub *)

\* r'\[\!\[([^\]]*)\]\(([^\)]+)\)\]\(([^\)]+)\)' matched at the start of a line:
\* <<alt_text, img_url, link_url>>, or <<>> when the line does not match
BadgeMatch(line) ==
    LET rb == FirstAt(line, 4, "]")
        rp == FirstAt(line, rb + 2, ")")
        rq == FirstAt(line, rp + 3, ")")
    IN  IF ~(At(line, 1, "[") /\ At(line, 2, "!") /\ At(line, 3, "[")) THEN <<>>
        ELSE IF rb = 0 \/ ~At(line, rb + 1, "(") THEN <<>>
        ELSE IF rp = 0 \/ rp = rb + 2 THEN <<>>
        ELSE IF ~(At(line, rp + 1, "]") /\ At(line, rp + 2, "(")) THEN <<>>
        ELSE IF rq = 0 \/ rq = rp + 3 THEN <<>>
        ELSE <<SubSeq(line, 4, rb - 1), SubSeq(line, rb + 2, rp - 1),
               SubSeq(line, rp + 3, rq - 1)>>

\* f'<a href="{link_url}"><img src="{img_url}" alt="{alt_text}"></a>'
AnchorImg(link_url, img_url, alt_text) ==
    <<A_HREF>> \o link_url \o <<QUOTE_GT, IMG, " ", SRC>> \o img_url
        \o <<QUOTE, " ", ALT>> \o alt_text \o <<QUOTE_GT, A_END>>

\* '![' in text
HasImageMarker(text) == Contains(text, <<"!", "[">>)

\* [line.strip() for line in div_content.split('\n') if line.strip() and '![' in line]
BadgeLines(div_content) ==
    LET stripped == [k \in 1..Len(Split(div_content, NL)) |-> Strip(Split(div_content, NL)[k])]
    IN  SelectSeq(stripped, LAMBDA line : line # <<>> /\ HasImageMarker(line))

\* the anchors of the badge lines that match the linked-image pattern
HtmlBadges(badge_lines) ==
    LET matching == SelectSeq(badge_lines, LAMBDA line : BadgeMatch(line) # <<>>)
    IN  [k \in 1..Len(matching) |->
            AnchorImg(BadgeMatch(matching[k])[3], BadgeMatch(matching[k])[2],
                      BadgeMatch(matching[k])[1])]

\* div_content.startswith('<img') and div_content.count('<img') == 1
IsSingleImage(div_content) ==
    /\ At(div_content, 1, IMG)
    /\ Cardinality({ k \in 1..Len(div_content) : div_content[k] = IMG }) = 1

\* the replacement of one centered block, group the text the pattern captured
process_center_div(group) ==
    LET div_content == Strip(group)
        badge_lines == BadgeLines(div_content)
        html_badges == HtmlBadges(badge_lines)
    IN  IF IsSingleImage(div_content)
        THEN <<NL, DIV_CENTER, NL>> \o div_content \o <<NL, DIV_END, NL>>
        ELSE IF HasImageMarker(div_content) /\ badge_lines # <<>>
        THEN IF html_badges # <<>>
             THEN <<NL, P_CENTER, NL>> \o Join(html_badges, <<" ">>) \o <<NL, P_END, NL>>
             ELSE <<NL, DIV_BADGES, NL, NL>> \o Join(badge_lines, <<" ">>)
                      \o <<NL, NL, DIV_END, NL>>
        ELSE <<NL>> \o div_content \o <<NL>>

\* \n\s*</div> matched at position j
ClosesDiv(s, j) == At(s, j, NL) /\ At(s, SkipSpace(s, j + 1), DIV_END)

\* r'<div align="center">\s*\n(.*?)\n\s*</div>' (DOTALL) tried at position i:
\* <<first position of the group, last position of the group, position of
\* </div>>>, <<0, 0, 0>> when there is no match.  \s* is greedy: the newline
\* before the group is the last one of the whitespace run after the tag for
\* which a closing \n\s*</div> exists; (.*?) is lazy: the closing is the first.
DivMatch(s, i) ==
    LET wend == SkipSpace(s, i + 1)
        closings(c) == { j \in (c + 1)..Len(s) : ClosesDiv(s, j) }
        starts == { c \in (i + 1)..(wend - 1) : s[c] = NL /\ closings(c) # {} }
        c == CHOOSE x \in starts : \A y \in starts : y <= x
        j == CHOOSE x \in closings(c) : \A y \in closings(c) : x <= y
    IN  IF s[i] # DIV_CENTER \/ starts = {} THEN <<0, 0, 0>>
        ELSE <<c + 1, j - 1, SkipSpace(s, j + 1)>>

\* the first position >= i where the pattern matches, 0 when none
NextDiv(s, i) ==
    LET hits == { j \in i..Len(s) : DivMatch(s, j)[3] # 0 }
    IN  IF hits = {} THEN 0 ELSE CHOOSE j \in hits : \A k \in hits : j <= k

RECURSIVE ProcessDivsFrom(_, _)
ProcessDivsFrom(s, i) ==
    LET j == NextDiv(s, i)
        m == DivMatch(s, j)
    IN  IF j = 0 THEN SubSeq(s, i, Len(s))
        ELSE SubSeq(s, i, j - 1) \o process_center_div(SubSeq(s, m[1], m[2]))
                 \o ProcessDivsFrom(s, m[3] + 1)

\* re.sub(div pattern, process_center_div, content, flags=re.DOTALL)
ProcessDivs(s) == ProcessDivsFrom(s, 1)

----------------------------------------------------------------------------
(* re.sub: the matches are taken left to right and do not overlap.  A      *)
(* pattern is given by ends, where ends[i] is the position at which the    *)
(* match that starts at i ends, 0 when there is none, and rep[i] is what   *)
(* replaces that match; no pattern here matches ''.                        *)

\* the first position >= i where a match starts, 0 when none
NextMatch(ends, i) ==
    LET hits == { j \in i..Len(ends) : ends[j] # 0 }
    IN  IF hits = {} THEN 0 ELSE CHOOSE j \in hits : \A k \in hits : j <= k

RECURSIVE SubFrom(_, _, _, _)
SubFrom(s, i, ends, rep) ==
    LET j == NextMatch(ends, i)
    IN  IF j = 0 THEN SubSeq(s, i, Len(s))
        ELSE SubSeq(s, i, j - 1) \o rep[j] \o SubFrom(s, ends[j] + 1, ends, rep)

Sub(s, ends, rep) == SubFrom(s, 1, ends, rep)

----------------------------------------------------------------------------
(* Package link shorthands *)

\* [^/]+ after position i: the position of the "/" that ends it, 0 when the
\* run is empty or the first lexeme holding "/" holds more than that
SlashAfter(s, i) ==
    LET hits == { k \in (i + 1)..Len(s) : HasSlash(s[k]) }
        k == CHOOSE x \in hits : \A y \in hits : x <= y
    IN  IF hits = {} THEN 0 ELSE IF s[k] = "/" /\ k > i + 1 THEN k ELSE 0

\* packages/rivulet-<name lowered, dots to dashes>
PackageSlug(name) == <<"packages", "/", "rivulet-">> \o DotsToDashes(Lower(name))

\* \[Docs\]\(src/Rivulet\.([^/]+)/README\.md\)
DocsLinkMatch(s, i) ==
    LET k == SlashAfter(s, i + 6)
    IN  IF i + 6 <= Len(s)
           /\ SubSeq(s, i, i + 6) = <<"[", "Docs", "]", "(", "src", "/", "Rivulet.">>
           /\ k # 0 /\ At(s, k + 1, "README.md") /\ At(s, k + 2, ")")
        THEN k + 2 ELSE 0

DocsLinkRepl(s, i, e) ==
    <<"[", "Docs", "]", "(">> \o PackageSlug(SubSeq(s, i + 7, e - 3)) \o <<".md", ")">>

\* <a href="src/Rivulet\.([^/]+)/README\.md">
HrefMatch(s, i) ==
    LET k == SlashAfter(s, i + 3)
    IN  IF i + 3 <= Len(s)
           /\ SubSeq(s, i, i + 3) = <<A_HREF, "src", "/", "Rivulet.">>
           /\ k # 0 /\ At(s, k + 1, "README.md") /\ At(s, k + 2, QUOTE_GT)
        THEN k + 2 ELSE 0

HrefRepl(s, i, e) ==
    <<A_HREF>> \o PackageSlug(SubSeq(s, i + 4, e - 3)) \o <<"/", QUOTE_GT>>

\* \(src/([^)]+)/README\.md\): the group runs to the "/README.md" right
\* before the first ")"; that "/" may be the last character of a scheme
ReadmeMatch(s, i) ==
    LET e == FirstAt(s, i, ")")
    IN  IF i + 2 <= Len(s) /\ SubSeq(s, i, i + 2) = <<"(", "src", "/">>
           /\ e >= i + 5 /\ s[e - 1] = "README.md"
           /\ \/ s[e - 2] = "/" /\ e >= i + 6
              \/ s[e - 2] \in {"https://", "http://"}
        THEN e ELSE 0

\* the part of a lexeme after its last "/"
AfterSlash(t) ==
    CASE t \in {"/", "https://", "http://"} -> <<>>
      [] t = CI_CD -> <<"CD Pipeline">>
      [] t = BR -> <<">">>
      [] t = A_END -> <<"a>">>
      [] t = P_END -> <<"p>">>
      [] t = DIV_END -> <<"div>">>
      [] t = TD_END -> <<"td>">>
      [] t = STRONG_END -> <<"strong>">>
      [] t = SPAN_END -> <<"span>">>

\* group.split("/")[-1]
LastSegment(g) ==
    LET hits == { k \in 1..Len(g) : HasSlash(g[k]) }
        k == CHOOSE x \in hits : \A y \in hits : y <= x
    IN  IF hits = {} THEN g ELSE AfterSlash(g[k]) \o SubSeq(g, k + 1, Len(g))

\* a group that ends inside a scheme has an empty last segment
ReadmeRepl(s, i, e) ==
    <<"(", "packages", "/">>
        \o (IF s[e - 2] = "/" THEN DotsToDashes(Lower(LastSegment(SubSeq(s, i + 3, e - 3))))
            ELSE <<>>)
        \o <<".md", ")">>

\* the three substitutions of the package links, in the order of the source
DocsLinks(s) ==
    Sub(s, [i \in 1..Len(s) |-> DocsLinkMatch(s, i)],
           [i \in 1..Len(s) |-> IF DocsLinkMatch(s, i) = 0 THEN <<>>
                                 ELSE DocsLinkRepl(s, i, DocsLinkMatch(s, i))])

Hrefs(s) ==
    Sub(s, [i \in 1..Len(s) |-> HrefMatch(s, i)],
           [i \in 1..Len(s) |-> IF HrefMatch(s, i) = 0 THEN <<>>
                                 ELSE HrefRepl(s, i, HrefMatch(s, i))])

Readmes(s) ==
    Sub(s, [i \in 1..Len(s) |-> ReadmeMatch(s, i)],
           [i \in 1..Len(s) |-> IF ReadmeMatch(s, i) = 0 THEN <<>>
                                 ELSE ReadmeRepl(s, i, ReadmeMatch(s, i))])

PackageLinks(s) == Readmes(Hrefs(DocsLinks(s)))

----------------------------------------------------------------------------
(* Badge Filter: filter_badges_for_versioned_docs *)

\* the part of a lexeme before its first double quote
BeforeQuote(t) ==
    CASE t \in {QUOTE, QUOTE_GT} -> <<>>
      [] t = A_HREF -> <<"<a href=">>
      [] t = A_TARGET_HREF -> <<"<a target=">>
      [] t = SRC -> <<"src=">>
      [] t = ALT -> <<"alt=">>
      [] t = DIV_CENTER -> <<"<div align=">>
      [] t = P_CENTER -> <<"<p align=">>
      [] t = DIV_BADGES -> <<"<div class=">>
      [] t = SPAN_SMALL -> <<"<span style=">>

\* [^"]+ after position i: the text up to the first double quote
QuotedValue(s, i) ==
    LET q == FirstHasQuote(s, i + 1)
    IN  IF q = 0 THEN <<>> ELSE SubSeq(s, i + 1, q - 1) \o BeforeQuote(s[q])

\* the position where the `">` after the href value ends, 0 when the value
\* is empty or something else follows its closing quote
HrefEnd(s, i) ==
    LET q == FirstHasQuote(s, i + 1)
    IN  IF q = 0 \/ QuotedValue(s, i) = <<>> THEN 0
        ELSE IF s[q] = QUOTE_GT THEN q
        ELSE IF s[q] \in {A_HREF, SRC, ALT} /\ At(s, q + 1, ">") THEN q + 1
        ELSE 0

\* <a href="([^"]+)">[^<]*<img[^>]*>[^<]*</a>\s*
AnchorMatch(s, i) ==
    LET h == HrefEnd(s, i)
        r == FirstHasLt(s, h + 1)
        g == FirstHasGt(s, r + 1)
        e == FirstHasLt(s, g + 1)
    IN  IF At(s, i, A_HREF) /\ h # 0 /\ r # 0 /\ s[r] = IMG /\ g # 0 /\ e # 0 /\ s[e] = A_END
        THEN SkipSpace(s, e + 1) - 1 ELSE 0

\* re.search(r'<img[^>]+src="([^"]+)"', full_match) for the <img at r: the
\* last src=" of the tag that has a character before it and a quoted value
\* inside the match
ImgSrcAt(m, r) ==
    LET g == FirstHasGt(m, r + 1)
        tagend == IF g = 0 THEN Len(m) ELSE g - 1
        hits == { p \in (r + 2)..tagend : m[p] = SRC /\ QuotedValue(m, p) # <<>> }
    IN  IF hits = {} THEN <<>> ELSE QuotedValue(m, CHOOSE x \in hits : \A y \in hits : y <= x)

\* group 1 of the first <img of the match that has one, '' when none has
ImgSrc(m) ==
    LET hits == { r \in 1..Len(m) : m[r] = IMG /\ ImgSrcAt(m, r) # <<>> }
    IN  IF hits = {} THEN <<>> ELSE ImgSrcAt(m, CHOOSE x \in hits : \A y \in hits : x <= y)

\* a slip: only the href is classified
filter_badge_hrefonly(s, i, e) ==
    LET full_match == SubSeq(s, i, e)
        href_url == QuotedValue(s, i)
    IN  IF is_dynamic_badge(href_url) THEN <<>> ELSE full_match

filter_badge(s, i, e) ==
    LET full_match == SubSeq(s, i, e)
        href_url == QuotedValue(s, i)
        img_src == ImgSrc(full_match)
    IN  IF is_dynamic_badge(href_url) \/ is_dynamic_badge(img_src) THEN <<>> ELSE full_match

\* !\[CI/CD Pipeline\].*?\n
PipelineBadgeMatch(s, i) ==
    IF i + 3 <= Len(s) /\ SubSeq(s, i, i + 3) = <<"!", "[", CI_CD, "]">>
    THEN FirstAt(s, i + 4, NL) ELSE 0

FilterAnchors(s) ==
    Sub(s, [i \in 1..Len(s) |-> AnchorMatch(s, i)],
           [i \in 1..Len(s) |-> IF AnchorMatch(s, i) = 0 THEN <<>>
                                 ELSE filter_badge(s, i, AnchorMatch(s, i))])

PipelineBadges(s) ==
    Sub(s, [i \in 1..Len(s) |-> PipelineBadgeMatch(s, i)], [i \in 1..Len(s) |-> <<>>])

filter_badges_for_versioned_docs(s) == PipelineBadges(FilterAnchors(s))

----------------------------------------------------------------------------
(* Table cells: improve_table_cell, its re.sub, and the package names *)

\* "<a" stands at position p
OpensAnchor(s, p) ==
    \/ At(s, p, A_HREF) \/ At(s, p, A_TARGET_HREF)
    \/ At(s, p, "<") /\ p < Len(s) /\ s[p + 1] \in {"a", "and", "assets", ALT}

\* (?:<a[^>]*>.*?</a>\s*(?:<br/>)?)+ from position p, then \s*</td>: the
\* first success in the order the regex engine tries (each .*? as short as
\* it can be, each \s*, <br/> and repetition as long as it can be), as
\* <<last position of the group, position of </td>>>, <<0, 0>> when none
RECURSIVE ItemsFrom(_, _)
ItemsFrom(s, p) ==
    LET g == FirstHasGt(s, p + 1)
        after(e) ==
            LET w == SkipSpace(s, e + 1)
            IN  IF At(s, w, BR)
                THEN IF ItemsFrom(s, w + 1)[2] # 0 THEN ItemsFrom(s, w + 1)
                     ELSE IF At(s, SkipSpace(s, w + 1), TD_END)
                          THEN <<w, SkipSpace(s, w + 1)>> ELSE <<0, 0>>
                ELSE IF At(s, w, TD_END) THEN <<w - 1, w>>
                ELSE ItemsFrom(s, w)
        closings == { e \in (g + 1)..Len(s) : s[e] = A_END /\ after(e)[2] # 0 }
    IN  IF ~OpensAnchor(s, p) \/ g = 0 \/ closings = {} THEN <<0, 0>>
        ELSE after(CHOOSE e \in closings : \A f \in closings : e <= f)

\* a slip: the badges stay one per line
improve_table_cell_stacked(cell_content) ==
    LET parts == Split(cell_content, BR)
        stripped == [k \in 1..Len(parts) |-> Strip(parts[k])]
        lines == SelectSeq(stripped, LAMBDA line : line # <<>>)
        badges == SelectSeq(lines, LAMBDA line : Contains(line, <<IMG>>))
        docs_link == SelectSeq(lines, LAMBDA line : Contains(line, <<"Docs", A_END>>))
    IN  IF Len(lines) > 1 /\ badges # <<>> /\ docs_link # <<>>
        THEN Join(badges, <<BR>>) \o <<BR, BR>> \o docs_link[1]
        ELSE cell_content

improve_table_cell(cell_content) ==
    LET parts == Split(cell_content, BR)
        stripped == [k \in 1..Len(parts) |-> Strip(parts[k])]
        lines == SelectSeq(stripped, LAMBDA line : line # <<>>)
        badges == SelectSeq(lines, LAMBDA line : Contains(line, <<IMG>>))
        docs_link == SelectSeq(lines, LAMBDA line : Contains(line, <<"Docs", A_END>>))
    IN  IF Len(lines) > 1 /\ badges # <<>> /\ docs_link # <<>>
        THEN Join(badges, <<" ">>) \o <<BR, BR>> \o docs_link[1]
        ELSE cell_content

\* <td>\s*((?:<a[^>]*>.*?</a>\s*(?:<br/>)?)+)\s*</td>
CellMatch(s, i) ==
    IF At(s, i, TD) THEN ItemsFrom(s, SkipSpace(s, i + 1))[2] ELSE 0

CellRepl(s, i, e) ==
    LET first == SkipSpace(s, i + 1)
    IN  <<TD, NL>> \o improve_table_cell(SubSeq(s, first, ItemsFrom(s, first)[1]))
            \o <<NL, TD_END>>

TableCells(s) ==
    Sub(s, [i \in 1..Len(s) |-> CellMatch(s, i)],
           [i \in 1..Len(s) |-> IF CellMatch(s, i) = 0 THEN <<>>
                                 ELSE CellRepl(s, i, CellMatch(s, i))])

\* <td><strong>(.*?Rivulet\.[^<]+)</strong></td>: "." stays on the line
NameMatch(s, i) ==
    LET fits(r) == /\ s[r] = "Rivulet."
                   /\ \A k \in (i + 2)..(r - 1) : s[k] # NL
                   /\ FirstHasLt(s, r + 1) > r + 1
                   /\ s[FirstHasLt(s, r + 1)] = STRONG_END
                   /\ At(s, FirstHasLt(s, r + 1) + 1, TD_END)
        hits == { r \in (i + 2)..Len(s) : fits(r) }
    IN  IF At(s, i, TD) /\ At(s, i + 1, STRONG) /\ hits # {}
        THEN FirstHasLt(s, (CHOOSE r \in hits : \A q \in hits : r <= q) + 1) + 1
        ELSE 0

NameRepl(s, i, e) == <<TD, SPAN_SMALL>> \o SubSeq(s, i + 2, e - 2) \o <<SPAN_END, TD_END>>

PackageNames(s) ==
    Sub(s, [i \in 1..Len(s) |-> NameMatch(s, i)],
           [i \in 1..Len(s) |-> IF NameMatch(s, i) = 0 THEN <<>>
                                 ELSE NameRepl(s, i, NameMatch(s, i))])

----------------------------------------------------------------------------
(* The pipeline *)

convert_github_to_mkdocs(s, files) ==
    convert_markdown_links(
        PackageNames(TableCells(filter_badges_for_versioned_docs(PackageLinks(ProcessDivs(s))))),
        files)

----------------------------------------------------------------------------
(* The matches re.sub visits, for stating what happens to each link *)

\* re.finditer(link pattern, s): <<start, position of "]", position of ")">>
RECURSIVE LinkMatchesFrom(_, _)
LinkMatchesFrom(s, i) ==
    LET j == NextLink(s, i)
        m == LinkMatch(s, j)
    IN  IF j = 0 THEN {}
        ELSE {<<j, m[1], m[2]>>} \cup LinkMatchesFrom(s, m[2] + 1)

LinkMatches(s) == LinkMatchesFrom(s, 1)

WholeOf(s, m) == SubSeq(s, m[1], m[3])
TextOf(s, m) == SubSeq(s, m[1] + 1, m[2] - 1)
PathOf(s, m) == SubSeq(s, m[2] + 2, m[3] - 1)

----------------------------------------------------------------------------
(* Inputs of the Link Resolver *)

Link(text, path) == <<"[">> \o text \o <<"]", "(">> \o path \o <<")">>

ExtraPath == <<"docs", "/", "extra.md">>
ExtraFile == <<<<"docs">>, <<"extra.md">>>>

LinkBodies ==
    { Link(<<"c">>, <<"CONTRIBUTING.md">>),
      Link(<<"n">>, <<".", "/", "docs", "/", "..", "/", "README.md">>),
      Link(<<"p">>, <<"src", "/", "Rivulet.", "Core", "/", "README.md">>),
      Link(<<"e">>, ExtraPath),
      Link(<<"h">>, <<"https://", "x">>),
      Link(<<"a">>, <<"#", "usage">>),
      Link(<<"t">>, <<"mailto:", "x">>),
      <<"!">> \o Link(<<"i">>, ExtraPath),
      <<"[", "!">> \o Link(<<"i">>, ExtraPath) \o <<"]", "(", "https://", "x", ")">>,
      <<"ok">>,
      Link(<<"c">>, <<"CONTRIBUTING.md">>) \o <<" ">> \o Link(<<"e">>, ExtraPath) }

\* what stands before and after the body of a line
LineShapes ==
    { <<<<>>, <<>>>>,
      <<<<"-", " ">>, <<>>>>,
      <<<<"*", " ">>, <<>>>>,
      <<<<"See", " ">>, <<" ", "ok">>>> }

LinkLines == { sh[1] \o b \o sh[2] : sh \in LineShapes, b \in LinkBodies }

\* documents of 1..MaxLines lines, the last one with or without its newline
LinkDocs ==
    { Join(ls, <<NL>>) \o last :
        ls \in UNION { [1..k -> LinkLines] : k \in 1..MaxLines },
        last \in {<<>>, <<NL>>} }

\* the disk: every synced source and docs/extra.md exist, or nothing does
FsChoices == { SyncKeys \cup {ExtraFile}, {} }

----------------------------------------------------------------------------
(* Inputs of the Badge Classifier *)

UrlParts ==
    { <<"github", ".com", "/">>, <<"GitHub", ".com", "/">>, <<"github", ".com">>,
      <<"codecov", ".io", "/">>, <<"scorecard", ".dev", "/">>,
      <<"opensource", ".org">>, <<"nuget", ".org">>, <<"NuGet", ".org">>,
      <<"dotnet", ".microsoft", ".com">>,
      <<"img.", "shields", ".io">>, <<"shields", ".io">>,
      <<"readthedocs">>, <<"github">>, <<"codecov">>, <<"nuget">>,
      <<"x">>, <<"/">>, <<".org">> }

RECURSIVE Flatten(_)
Flatten(parts) == IF parts = <<>> THEN <<>> ELSE Head(parts) \o Flatten(Tail(parts))

Urls == { Flatten(ps) : ps \in UNION { [1..k -> UrlParts] : k \in 0..MaxUrlParts } }

----------------------------------------------------------------------------
(* Inputs of the pipeline: documents made of the blocks a README holds *)

\* [![alt](img)](link)
Badge(alt, img, link) ==
    <<"[", "!", "[">> \o alt \o <<"]", "(">> \o img \o <<")", "]", "(">> \o link \o <<")">>

NuGetBadge ==
    Badge(<<"N">>, <<"https://", "img.", "shields", ".io", "/", "nuget", "/", "x">>,
          <<"https://", "nuget", ".org", "/", "x">>)

CodecovBadge ==
    Badge(<<"C">>, <<"https://", "codecov", ".io", "/", "x">>,
          <<"https://", "codecov", ".io", "/", "x">>)

Centered(lines) == <<DIV_CENTER, NL>> \o lines \o <<NL, DIV_END, NL>>

CorePath == <<"src", "/", "Rivulet.", "Core", "/", "README.md">>
SqlServerPath == <<"src", "/", "Rivulet.", "Sql", ".", "SqlServer", "/", "README.md">>

PipeBlocks ==
    { \* the logo
      Centered(<<IMG, " ", SRC, "assets", "/", "logo.png", QUOTE_GT>>),
      \* a badge group, one badge per line
      Centered(NuGetBadge \o <<NL>> \o CodecovBadge),
      \* a badge written as a list item
      Centered(<<"-", " ">> \o CodecovBadge),
      \* a centered paragraph
      Centered(<<"hello">>),
      \* package documentation links in prose, in a list, in a table cell
      <<"See", " ">> \o Link(<<"Docs">>, CorePath) \o <<" ", "ok", NL>>,
      <<"-", " ">> \o Link(<<"Docs">>, SqlServerPath) \o <<NL>>,
      <<TD>> \o Link(<<"Docs">>, CorePath) \o <<TD_END, NL>>,
      \* a table cell with a badge above the Docs link
      <<TD, NL>>
          \o AnchorImg(<<"https://", "nuget", ".org", "/", "x">>,
                       <<"https://", "img.", "shields", ".io", "/", "nuget", "/", "x">>, <<"N">>)
          \o <<BR, NL, A_HREF>> \o CorePath \o <<QUOTE_GT, "Docs", A_END, NL, TD_END, NL>>,
      \* a package name in a table
      <<TD, STRONG, "Rivulet.", "Core", STRONG_END, TD_END, NL>>,
      \* links to a file that is not synced, in a list and in prose
      <<"-", " ">> \o Link(<<"e">>, ExtraPath) \o <<NL>>,
      <<"See", " ">> \o Link(<<"e">>, ExtraPath) \o <<NL>>,
      \* badges written as HTML
      <<A_HREF, "https://", "github", ".com", "/", "x", QUOTE_GT, IMG, " ", SRC,
        "https://", "img.", "shields", ".io", "/", "github", "/", "x", QUOTE_GT, A_END, NL>>,
      <<A_TARGET_HREF, "https://", "codecov", ".io", "/", "x", QUOTE_GT, IMG, " ", SRC,
        "https://", "codecov", ".io", "/", "x", QUOTE_GT, A_END, NL>>,
      \* the pipeline badge
      <<"!", "[", CI_CD, "]", "(", "https://", "x", ")", NL>>,
      \* a link to a synced document
      <<"See", " ">> \o Link(<<"c">>, <<"CONTRIBUTING.md">>) \o <<NL>>,
      <<"ok", NL>> }

\* documents of 1..MaxBlocks blocks
PipeDocs == { Flatten(bs) : bs \in UNION { [1..k -> PipeBlocks] : k \in 1..MaxBlocks } }

----------------------------------------------------------------------------
(* Inputs of the Badge Filter *)

\* link and image URLs: allow-listed, dynamic, unknown
HrefChoices ==
    { <<"https://", "nuget", ".org", "/", "x">>,
      <<"https://", "codecov", ".io", "/", "x">>,
      <<"https://", "x">> }

\* <<>> stands for an image without a src attribute
SrcChoices ==
    { <<"https://", "img.", "shields", ".io", "/", "nuget", "/", "x">>,
      <<"https://", "img.", "shields", ".io", "/", "github", "/", "x">>,
      <<>> }

\* <a href="link"><img src="image" alt="N"></a>
HtmlBadge(link_url, img_url) ==
    IF img_url = <<>>
    THEN <<A_HREF>> \o link_url \o <<QUOTE_GT, IMG, " ", ALT, "N", QUOTE_GT, A_END>>
    ELSE AnchorImg(link_url, img_url, <<"N">>)

PipelineImage == <<"!", "[", CI_CD, "]", "(", "https://", "x", ")">>

FilterLines ==
    { HtmlBadge(h, i) : h \in HrefChoices, i \in SrcChoices }
    \cup { <<A_TARGET_HREF, "https://", "codecov", ".io", "/", "x", QUOTE_GT, IMG, " ", SRC,
             "https://", "codecov", ".io", "/", "x", QUOTE_GT, A_END>>,
           PipelineImage,
           <<"[">> \o PipelineImage \o <<"]", "(", "https://", "x", ")">>,
           <<"ok">> }

\* documents of 1..MaxLines lines, the last one with or without its newline
FilterDocs ==
    { Join(ls, <<NL>>) \o last :
        ls \in UNION { [1..k -> FilterLines] : k \in 1..MaxLines },
        last \in {<<>>, <<NL>>} }

----------------------------------------------------------------------------
(* Inputs of the Div Block Processor *)

LogoTag == <<IMG, " ", SRC, "assets", "/", "logo.png", QUOTE_GT>>

\* what a centered block holds
DivInners ==
    { LogoTag,
      LogoTag \o <<NL, "hello">>,
      LogoTag \o <<NL>> \o NuGetBadge,
      LogoTag \o <<" ">> \o LogoTag,
      NuGetBadge,
      NuGetBadge \o <<NL>> \o CodecovBadge,
      <<"-", " ">> \o CodecovBadge,
      NuGetBadge \o <<NL, "!", "[", "N", "]", "(", "https://", "x", ")">>,
      <<"!", "[", "N", "]", "(", "https://", "x", ")">>,
      <<"hello">> }

DivBlocks == { Centered(c) : c \in DivInners } \cup { <<"ok", NL>> }

\* documents of 1..MaxBlocks blocks
DivDocs == { Flatten(bs) : bs \in UNION { [1..k -> DivBlocks] : k \in 1..MaxBlocks } }

----------------------------------------------------------------------------
(* Inputs of the Table Cell Reflow *)

\* <a href="packages/rivulet-<name>/">Docs</a>
DocsAnchor(name) ==
    <<A_HREF, "packages", "/", "rivulet-">> \o name \o <<"/", QUOTE_GT, "Docs", A_END>>

\* <a href="packages/rivulet-core/"><img src="https://x" alt="N">Docs</a>: a
\* documentation link that holds an image
DocsBadge ==
    <<A_HREF, "packages", "/", "rivulet-", "core", "/", QUOTE_GT,
      IMG, " ", SRC, "https://", "x", QUOTE, " ", ALT, "N", QUOTE_GT, "Docs", A_END>>

\* the visual lines of a cell: two badges, two documentation links, a link,
\* a documentation link that holds an image
CellLineChoices ==
    { HtmlBadge(<<"https://", "nuget", ".org", "/", "x">>,
                <<"https://", "img.", "shields", ".io", "/", "nuget", "/", "x">>),
      HtmlBadge(<<"https://", "nuget", ".org", "/", "y">>,
                <<"https://", "img.", "shields", ".io", "/", "nuget", "/", "y">>),
      DocsAnchor(<<"core">>),
      DocsAnchor(<<"sql">>),
      <<A_HREF, "https://", "x", QUOTE_GT, "x", A_END>>,
      DocsBadge }

\* how the README lays a cell out: <<after <td>, between lines, before </td>>>
CellLayouts == { <<<<>>, <<BR>>, <<>>>>, <<<<NL>>, <<BR, NL>>, <<NL>>>> }

\* one table cell of 1..MaxCellLines visual lines, on a line of its own
CellDocs ==
    { <<TD>> \o lay[1] \o Join(ls, lay[2]) \o lay[3] \o <<TD_END, NL>> :
        ls \in UNION { [1..k -> CellLineChoices] : k \in 1..MaxCellLines },
        lay \in CellLayouts }

----------------------------------------------------------------------------
(* Specifications *)

\* convert_markdown_links(content) called on a document
InitLinks ==
    /\ doc \in LinkDocs
    /\ fs \in FsChoices
    /\ content = doc
    /\ marked = <<>>
    /\ pc = "links"
    /\ url = <<>>
    /\ verdict = "none"
    /\ runs = 0
    /\ before = <<>>
    /\ trail = <<>>
    /\ src = <<>>
    /\ disk = <<>>
    /\ pre = <<>>
    /\ log = <<>>
    /\ item = 0
    /\ converted_content = <<>>
    /\ new_content = <<>>
    /\ changes_detected = FALSE
    /\ check_only = FALSE
    /\ registry = "none"
    /\ ret = -1

ConvertMarkdownLinks ==
    /\ pc = "links"
    /\ marked' = MarkLinks(content, fs)
    /\ content' = convert_markdown_links(content, fs)
    /\ pc' = "done"
    /\ UNCHANGED <<doc, fs, url, verdict, runs, before, trail,
                 src, disk, pre, log, item, converted_content, new_content,
                 changes_detected, check_only, registry, ret>>

NextLinks == ConvertMarkdownLinks

SpecLinks == InitLinks /\ [][NextLinks]_vars

\* is_dynamic_badge(url) called on a URL
InitBadge ==
    /\ url \in Urls
    /\ verdict = "none"
    /\ doc = <<>>
    /\ fs = {}
    /\ content = <<>>
    /\ marked = <<>>
    /\ pc = "classify"
    /\ runs = 0
    /\ before = <<>>
    /\ trail = <<>>
    /\ src = <<>>
    /\ disk = <<>>
    /\ pre = <<>>
    /\ log = <<>>
    /\ item = 0
    /\ converted_content = <<>>
    /\ new_content = <<>>
    /\ changes_detected = FALSE
    /\ check_only = FALSE
    /\ registry = "none"
    /\ ret = -1

Classify ==
    /\ pc = "classify"
    /\ verdict' = IF is_dynamic_badge(url) THEN "remove" ELSE "keep"
    /\ pc' = "done"
    /\ UNCHANGED <<doc, fs, content, marked, url, runs, before, trail,
                 src, disk, pre, log, item, converted_content, new_content,
                 changes_detected, check_only, registry, ret>>

NextBadge == Classify

SpecBadge == InitBadge /\ [][NextBadge]_vars

\* convert_github_to_mkdocs(content) called on a document, then on its own
\* output
InitPipe ==
    /\ doc \in PipeDocs
    /\ fs \in FsChoices
    /\ content = doc
    /\ marked = <<>>
    /\ pc = "pipe"
    /\ url = <<>>
    /\ verdict = "none"
    /\ runs = 0
    /\ before = <<>>
    /\ trail = <<>>
    /\ src = <<>>
    /\ disk = <<>>
    /\ pre = <<>>
    /\ log = <<>>
    /\ item = 0
    /\ converted_content = <<>>
    /\ new_content = <<>>
    /\ changes_detected = FALSE
    /\ check_only = FALSE
    /\ registry = "none"
    /\ ret = -1

ConvertGithubToMkdocs ==
    /\ pc = "pipe"
    /\ runs < MaxRuns
    /\ before' = content
    /\ content' = convert_github_to_mkdocs(content, fs)
    /\ runs' = runs + 1
    /\ UNCHANGED <<doc, fs, marked, pc, url, verdict, trail,
                 src, disk, pre, log, item, converted_content, new_content,
                 changes_detected, check_only, registry, ret>>

NextPipe == ConvertGithubToMkdocs

SpecPipe == InitPipe /\ [][NextPipe]_vars

\* filter_badges_for_versioned_docs(content) called on a document
InitFilter ==
    /\ doc \in FilterDocs
    /\ fs = {}
    /\ content = doc
    /\ marked = <<>>
    /\ pc = "filter"
    /\ url = <<>>
    /\ verdict = "none"
    /\ runs = 0
    /\ before = <<>>
    /\ trail = <<>>
    /\ src = <<>>
    /\ disk = <<>>
    /\ pre = <<>>
    /\ log = <<>>
    /\ item = 0
    /\ converted_content = <<>>
    /\ new_content = <<>>
    /\ changes_detected = FALSE
    /\ check_only = FALSE
    /\ registry = "none"
    /\ ret = -1

FilterBadgesForVersionedDocs ==
    /\ pc = "filter"
    /\ marked' = FilterAnchors(content)
    /\ content' = filter_badges_for_versioned_docs(content)
    /\ pc' = "done"
    /\ UNCHANGED <<doc, fs, url, verdict, runs, before, trail,
                 src, disk, pre, log, item, converted_content, new_content,
                 changes_detected, check_only, registry, ret>>

NextFilter == FilterBadgesForVersionedDocs

SpecFilter == InitFilter /\ [][NextFilter]_vars

\* the substitution of the centered blocks called on a document
InitDiv ==
    /\ doc \in DivDocs
    /\ fs = {}
    /\ content = doc
    /\ marked = <<>>
    /\ pc = "div"
    /\ url = <<>>
    /\ verdict = "none"
    /\ runs = 0
    /\ before = <<>>
    /\ trail = <<>>
    /\ src = <<>>
    /\ disk = <<>>
    /\ pre = <<>>
    /\ log = <<>>
    /\ item = 0
    /\ converted_content = <<>>
    /\ new_content = <<>>
    /\ changes_detected = FALSE
    /\ check_only = FALSE
    /\ registry = "none"
    /\ ret = -1

ProcessCenterDivs ==
    /\ pc = "div"
    /\ content' = ProcessDivs(content)
    /\ pc' = "done"
    /\ UNCHANGED <<doc, fs, marked, url, verdict, runs, before, trail,
                 src, disk, pre, log, item, converted_content, new_content,
                 changes_detected, check_only, registry, ret>>

NextDivs == ProcessCenterDivs

SpecDiv == InitDiv /\ [][NextDivs]_vars

\* the substitution of the table cells called on a document
InitTable ==
    /\ doc \in CellDocs
    /\ fs = {}
    /\ content = doc
    /\ marked = <<>>
    /\ pc = "cells"
    /\ url = <<>>
    /\ verdict = "none"
    /\ runs = 0
    /\ before = <<>>
    /\ trail = <<>>
    /\ src = <<>>
    /\ disk = <<>>
    /\ pre = <<>>
    /\ log = <<>>
    /\ item = 0
    /\ converted_content = <<>>
    /\ new_content = <<>>
    /\ changes_detected = FALSE
    /\ check_only = FALSE
    /\ registry = "none"
    /\ ret = -1

ImproveTableCells ==
    /\ pc = "cells"
    /\ content' = TableCells(content)
    /\ pc' = "done"
    /\ UNCHANGED <<doc, fs, marked, url, verdict, runs, before, trail,
                 src, disk, pre, log, item, converted_content, new_content,
                 changes_detected, check_only, registry, ret>>

NextTable == ImproveTableCells

SpecTable == InitTable /\ [][NextTable]_vars


\* convert_github_to_mkdocs(content) taken one statement at a time: every
\* statement assigns to content the result of one substitution over content
InitStages ==
    /\ doc \in PipeDocs
    /\ fs \in FsChoices
    /\ content = doc
    /\ marked = <<>>
    /\ pc = "centered"
    /\ url = <<>>
    /\ verdict = "none"
    /\ runs = 0
    /\ before = <<>>
    /\ trail = <<>>
    /\ src = <<>>
    /\ disk = <<>>
    /\ pre = <<>>
    /\ log = <<>>
    /\ item = 0
    /\ converted_content = <<>>
    /\ new_content = <<>>
    /\ changes_detected = FALSE
    /\ check_only = FALSE
    /\ registry = "none"
    /\ ret = -1

\* a variant that resolves the links before the package shorthands are
\* rewritten
StageAfter_linksearly(p) ==
    CASE p = "centered"  -> "links"
      [] p = "links"     -> "shorthand"
      [] p = "shorthand" -> "badges"
      [] p = "badges"    -> "table"
      [] p = "table"     -> "header"
      [] p = "header"    -> "done"
      [] OTHER           -> "done"

\* the statement that follows statement p in the body of the function; the
\* first one is the substitution of the centered blocks, the assignment
\* above it being commented out
StageAfter(p) ==
    CASE p = "centered"  -> "shorthand"
      [] p = "shorthand" -> "badges"
      [] p = "badges"    -> "table"
      [] p = "table"     -> "header"
      [] p = "header"    -> "links"
      [] p = "links"     -> "done"
      [] OTHER           -> "done"

\* content = re.sub(<div align="center">...</div>, process_center_div, ...)
StageCenterDivs ==
    /\ pc = "centered"
    /\ content' = ProcessDivs(content)
    /\ trail' = Append(trail, pc)
    /\ pc' = StageAfter(pc)
    /\ UNCHANGED <<doc, fs, marked, url, verdict, runs, before,
                 src, disk, pre, log, item, converted_content, new_content,
                 changes_detected, check_only, registry, ret>>

\* the three substitutions of the package link shorthands
StagePackageLinks ==
    /\ pc = "shorthand"
    /\ content' = PackageLinks(content)
    /\ trail' = Append(trail, pc)
    /\ pc' = StageAfter(pc)
    /\ UNCHANGED <<doc, fs, marked, url, verdict, runs, before,
                 src, disk, pre, log, item, converted_content, new_content,
                 changes_detected, check_only, registry, ret>>

\* content = filter_badges_for_versioned_docs(content)
StageFilterBadges ==
    /\ pc = "badges"
    /\ content' = filter_badges_for_versioned_docs(content)
    /\ trail' = Append(trail, pc)
    /\ pc' = StageAfter(pc)
    /\ UNCHANGED <<doc, fs, marked, url, verdict, runs, before,
                 src, disk, pre, log, item, converted_content, new_content,
                 changes_detected, check_only, registry, ret>>

\* content = re.sub(<td align="center">...</td>, improve_table_cell, ...)
StageTableCells ==
    /\ pc = "table"
    /\ content' = TableCells(content)
    /\ trail' = Append(trail, pc)
    /\ pc' = StageAfter(pc)
    /\ UNCHANGED <<doc, fs, marked, url, verdict, runs, before,
                 src, disk, pre, log, item, converted_content, new_content,
                 changes_detected, check_only, registry, ret>>

\* content = re.sub(<td><strong>...Rivulet.X</strong></td>, ...)
StagePackageNames ==
    /\ pc = "header"
    /\ content' = PackageNames(content)
    /\ trail' = Append(trail, pc)
    /\ pc' = StageAfter(pc)
    /\ UNCHANGED <<doc, fs, marked, url, verdict, runs, before,
                 src, disk, pre, log, item, converted_content, new_content,
                 changes_detected, check_only, registry, ret>>

\* content = convert_markdown_links(content)
StageMarkdownLinks ==
    /\ pc = "links"
    /\ content' = convert_markdown_links(content, fs)
    /\ trail' = Append(trail, pc)
    /\ pc' = StageAfter(pc)
    /\ UNCHANGED <<doc, fs, marked, url, verdict, runs, before,
                 src, disk, pre, log, item, converted_content, new_content,
                 changes_detected, check_only, registry, ret>>

NextStages ==
    \/ StageCenterDivs
    \/ StagePackageLinks
    \/ StageFilterBadges
    \/ StageTableCells
    \/ StagePackageNames
    \/ StageMarkdownLinks

SpecStages == InitStages /\ [][NextStages]_vars

----------------------------------------------------------------------------
(* sync_docs: the assets, then one Sync Map entry after the other *)

\* what a path holds: nothing, text, or bytes that are no UTF-8 text
Absent == [exists |-> FALSE, utf8 |-> TRUE, data |-> <<>>]
File(d) == [exists |-> TRUE, utf8 |-> TRUE, data |-> d]
Garbled == [exists |-> TRUE, utf8 |-> FALSE, data |-> <<"\\xff">>]

\* SYNC_FILES.items(): the keys in the order build_sync_files inserts them
SyncOrder ==
    << <<<<"README.md">>>>,
       <<<<"LICENSE.txt">>>>,
       <<<<"CONTRIBUTING.md">>>>,
       <<<<"SECURITY.md">>>>,
       <<<<"CODE_OF_CONDUCT.md">>>>,
       <<<<"ROADMAP.md">>>>,
       <<<<"tests">>, <<"Rivulet.", "Benchmarks">>, <<"README.md">>>>,
       <<<<"src">>, <<"Rivulet.", "Core">>, <<"README.md">>>>,
       <<<<"src">>, <<"Rivulet.", "Sql", ".", "SqlServer">>, <<"README.md">>>> >>

SyncEntry(key) == CHOOSE e \in SYNC_FILES : e.source = key

\* REPO_ROOT / "assets" and DOCS_DIR / "assets"
AssetsSource == <<<<"assets">>>>
AssetsDest == <<"assets">>
AssetsTree == File(<<"logo.png">>)

\* the files sync_docs writes: the destinations of the Sync Map and the
\* copy of the assets
SyncTargets == { e.dest : e \in SYNC_FILES } \cup {AssetsDest}

\* the README documents a run is given
ReadmeTexts ==
    { Centered(NuGetBadge \o <<NL>> \o CodecovBadge)
          \o <<"See", " ">> \o Link(<<"Docs">>, CorePath) \o <<" ", "ok", NL>>,
      <<"-", " ">> \o Link(<<"e">>, ExtraPath) \o <<NL, "ok", NL>> }

\* what a source that is copied as it is holds: its own path
Bytes(key) == File(Flatten(key))

\* a slip: a missing source ends the run
AfterMissing_abort == "aborted"

\* continue: the loop goes on with the next entry
AfterMissing == "loop"

\* a slip: the text that was read is written, not the converted one
WriteArg_unconverted(read, converted) == read

\* dest.write_text(converted_content, ...)
WriteArg(read, converted) == converted

\* sync_docs() is called: any subset of the sources is missing, the README
\* is missing, unreadable or one of the documents, the assets exist or not,
\* and the destinations are absent or left from an earlier run
InitSync ==
    /\ \E missing \in SUBSET (SyncKeys \ {SyncOrder[1]}) :
       \E readme \in {Absent, Garbled} \cup { File(t) : t \in ReadmeTexts } :
          src = [k \in SyncKeys |->
                    IF k = SyncOrder[1] THEN readme
                    ELSE IF k \in missing THEN Absent ELSE Bytes(k)]
    /\ \E assets \in SUBSET {AssetsSource} :
          fs = { k \in SyncKeys : src[k].exists } \cup assets \cup {ExtraFile}
    /\ \E old \in {Absent, File(<<"old">>)} : disk = [d \in SyncTargets |-> old]
    /\ pre = disk
    /\ log = <<>>
    /\ item = 1
    /\ pc = "assets"
    /\ doc = <<>>
    /\ content = <<>>
    /\ converted_content = <<>>
    /\ marked = <<>>
    /\ url = <<>>
    /\ verdict = "none"
    /\ runs = 0
    /\ before = <<>>
    /\ trail = <<>>
    /\ new_content = <<>>
    /\ changes_detected = FALSE
    /\ check_only = FALSE
    /\ registry = "none"
    /\ ret = -1

\* if assets_source.exists(): rmtree the copy, copytree the source
CopyAssets ==
    /\ pc = "assets"
    /\ IF AssetsSource \in fs
       THEN /\ disk' = [disk EXCEPT ![AssetsDest] = AssetsTree]
            /\ log' = Append(log, <<"OK", AssetsSource>>)
       ELSE UNCHANGED <<disk, log>>
    /\ pc' = "loop"
    /\ UNCHANGED <<doc, fs, content, marked, url, verdict, runs, before, trail,
                   src, pre, item, converted_content, new_content,
                   changes_detected, check_only, registry, ret>>

\* for source, (dest, convert) in SYNC_FILES.items(): if not source.exists():
\* warn and continue; else make the directory of dest and go on to the
\* branch of convert
ForEntry ==
    /\ pc = "loop"
    /\ item <= Len(SyncOrder)
    /\ IF ~src[SyncOrder[item]].exists
       THEN /\ log' = Append(log, <<"WARNING", SyncOrder[item]>>)
            /\ item' = item + 1
            /\ pc' = AfterMissing
       ELSE /\ pc' = IF SyncEntry(SyncOrder[item]).convert THEN "read" ELSE "copy"
            /\ UNCHANGED <<log, item>>
    /\ UNCHANGED <<doc, fs, content, marked, url, verdict, runs, before, trail,
                   src, disk, pre, converted_content, new_content,
                   changes_detected, check_only, registry, ret>>

\* content = source.read_text(encoding='utf-8'): raises on bytes that are no
\* UTF-8 text, and nothing catches it
ReadText ==
    /\ pc = "read"
    /\ IF src[SyncOrder[item]].utf8
       THEN /\ content' = src[SyncOrder[item]].data
            /\ pc' = "convert"
       ELSE /\ pc' = "aborted"
            /\ UNCHANGED content
    /\ UNCHANGED <<doc, fs, marked, url, verdict, runs, before, trail,
                   src, disk, pre, log, item, converted_content, new_content,
                   changes_detected, check_only, registry, ret>>

\* converted_content = convert_github_to_mkdocs(content)
ConvertContent ==
    /\ pc = "convert"
    /\ converted_content' = convert_github_to_mkdocs(content, fs)
    /\ pc' = "write"
    /\ UNCHANGED <<doc, fs, content, marked, url, verdict, runs, before, trail,
                   src, disk, pre, log, item, new_content,
                   changes_detected, check_only, registry, ret>>

\* dest.write_text(converted_content, encoding='utf-8') and the message
WriteText ==
    /\ pc = "write"
    /\ disk' = [disk EXCEPT ![SyncEntry(SyncOrder[item]).dest] =
                               File(WriteArg(content, converted_content))]
    /\ log' = Append(log, <<"OK", SyncOrder[item]>>)
    /\ item' = item + 1
    /\ pc' = "loop"
    /\ UNCHANGED <<doc, fs, content, marked, url, verdict, runs, before, trail,
                   src, pre, converted_content, new_content,
                   changes_detected, check_only, registry, ret>>

\* shutil.copy2(source, dest) and the message
Copy2 ==
    /\ pc = "copy"
    /\ disk' = [disk EXCEPT ![SyncEntry(SyncOrder[item]).dest] = src[SyncOrder[item]]]
    /\ log' = Append(log, <<"OK", SyncOrder[item]>>)
    /\ item' = item + 1
    /\ pc' = "loop"
    /\ UNCHANGED <<doc, fs, content, marked, url, verdict, runs, before, trail,
                   src, pre, converted_content, new_content,
                   changes_detected, check_only, registry, ret>>

\* the loop is over: the closing message
SyncDone ==
    /\ pc = "loop"
    /\ item > Len(SyncOrder)
    /\ log' = Append(log, <<"Synced", <<>>>>)
    /\ pc' = "done"
    /\ UNCHANGED <<doc, fs, content, marked, url, verdict, runs, before, trail,
                   src, disk, pre, item, converted_content, new_content,
                   changes_detected, check_only, registry, ret>>

NextSync ==
    \/ CopyAssets
    \/ ForEntry
    \/ ReadText
    \/ ConvertContent
    \/ WriteText
    \/ Copy2
    \/ SyncDone

SpecSync == InitSync /\ [][NextSync]_vars

----------------------------------------------------------------------------
(* generate_all: the registry, then one generator after the other *)

\* the generators in the order of the list, each with the markers of the
\* section it rewrites and the indentation it writes before the end marker;
\* SamplesReadmeGenerator rewrites no section
Generators ==
    << [desc |-> "README.md",
        start |-> "<!-- PACKAGES_START -->", end |-> "<!-- PACKAGES_END -->",
        indent |-> <<>>],
       [desc |-> "samples/README.md", start |-> "", end |-> "", indent |-> <<>>],
       [desc |-> "ROADMAP.md",
        start |-> "<!-- VERSIONS_START -->", end |-> "<!-- VERSIONS_END -->",
        indent |-> <<>>],
       [desc |-> ".github/workflows/release.yml",
        start |-> "# PACK_COMMANDS_START", end |-> "# PACK_COMMANDS_END",
        indent |-> <<"        ">>],
       [desc |-> ".github/workflows/nuget-activity-monitor.yml",
        start |-> "# PACKAGE_LIST_START", end |-> "# PACKAGE_LIST_END",
        indent |-> <<"          ">>],
       [desc |-> ".github/dependabot.yml",
        start |-> "# PACKAGE_DIRECTORIES_START", end |-> "# PACKAGE_DIRECTORIES_END",
        indent |-> <<"  ">>] >>

\* the paths below repo_root that generate_all reads and writes
ReadmePath == <<"README.md">>
SamplesPath == <<"samples", "README.md">>
DocsRoadmapPath == <<"docs", "ROADMAP.md">>
RoadmapPath == <<"ROADMAP.md">>
GenTargets ==
    { ReadmePath, SamplesPath, DocsRoadmapPath, RoadmapPath,
      <<".github", "workflows", "release.yml">>,
      <<".github", "workflows", "nuget-activity-monitor.yml">>,
      <<".github", "dependabot.yml">> }

\* the section a generator computes from the registry, and the whole text
\* SamplesReadmeGenerator computes from it
SectionOf(g) == <<"section of", Generators[g].desc>>
SamplesText == <<"# Rivulet Samples", NL, "samples of the registry", NL>>

\* the path a generator reads, which is the path generate_all compares and
\* writes: docs/ROADMAP.md when it exists, ROADMAP.md otherwise
FilePath(g, d) ==
    CASE g = 1 -> ReadmePath
      [] g = 2 -> SamplesPath
      [] g = 3 -> IF d[DocsRoadmapPath].exists THEN DocsRoadmapPath ELSE RoadmapPath
      [] g = 4 -> <<".github", "workflows", "release.yml">>
      [] g = 5 -> <<".github", "workflows", "nuget-activity-monitor.yml">>
      [] OTHER -> <<".github", "dependabot.yml">>

\* re.sub(start.*?end, start\nsection\n<indent>end, content, flags=re.DOTALL)
\* when re.search finds the pattern, the content as it is when not
ReplaceSection(c, g) ==
    LET ends == [i \in 1..Len(c) |->
                    IF c[i] = Generators[g].start
                    THEN FirstAt(c, i + 1, Generators[g].end) ELSE 0]
        rep == [i \in 1..Len(c) |->
                    <<Generators[g].start, NL>> \o SectionOf(g) \o <<NL>>
                        \o Generators[g].indent \o <<Generators[g].end>>]
    IN  IF NextMatch(ends, 1) = 0 THEN c ELSE Sub(c, ends, rep)

\* generator.generate() on the disk d: what it returns, or that it raised
Generate(g, d) ==
    LET f == d[FilePath(g, d)]
    IN  IF g = 2 THEN [raised |-> FALSE, text |-> SamplesText]
        ELSE IF ~f.exists
             THEN IF g = 1 THEN [raised |-> TRUE, text |-> <<>>]
                  ELSE [raised |-> FALSE, text |-> <<>>]
        ELSE IF ~f.utf8 THEN [raised |-> TRUE, text |-> <<>>]
        ELSE [raised |-> FALSE, text |-> ReplaceSection(f.data, g)]

\* a slip: a target that does not exist counts as one that differs
NeedsRegeneration_missingcounts(f, new) == ~f.exists \/ f.data # new

\* if file_path.exists(): ... if old_content != new_content
NeedsRegeneration(f, new) == f.exists /\ f.data # new

\* what the file of generator g holds: the section of the registry between
\* the markers, another section, or no markers
Fresh(g) ==
    File(<<"head", NL, Generators[g].start, NL>> \o SectionOf(g) \o <<NL>>
             \o Generators[g].indent \o <<Generators[g].end, NL, "tail", NL>>)
Stale(g) ==
    File(<<"head", NL, Generators[g].start, NL, "old", NL>>
             \o Generators[g].indent \o <<Generators[g].end, NL, "tail", NL>>)
NoMarkers == File(<<"head", NL, "tail", NL>>)

\* generate_all(check_only) is called: the registry loads and validates, is
\* invalid, or cannot be loaded, and every file is absent or holds one of
\* its texts
InitGen ==
    /\ registry \in {"valid", "invalid", "unloadable"}
    /\ check_only \in BOOLEAN
    /\ \E readme \in {Absent, Fresh(1), Stale(1), NoMarkers} :
       \E samples \in {Absent, File(SamplesText), File(<<"old">>), Garbled} :
       \E docsroadmap \in {Absent, Fresh(3), Stale(3)} :
       \E roadmap \in {Absent, Fresh(3), Stale(3)} :
       \E release \in {Absent, Fresh(4), Stale(4)} :
       \E monitor \in {Absent, Fresh(5), Stale(5)} :
       \E dependabot \in {Absent, Fresh(6), Stale(6)} :
          disk = [t \in GenTargets |->
                    CASE t = ReadmePath -> readme
                      [] t = SamplesPath -> samples
                      [] t = DocsRoadmapPath -> docsroadmap
                      [] t = RoadmapPath -> roadmap
                      [] t = FilePath(4, <<>>) -> release
                      [] t = FilePath(5, <<>>) -> monitor
                      [] OTHER -> dependabot]
    /\ pre = disk
    /\ log = <<>>
    /\ item = 1
    /\ pc = "load"
    /\ new_content = <<>>
    /\ changes_detected = FALSE
    /\ ret = -1
    /\ doc = <<>>
    /\ fs = {}
    /\ content = <<>>
    /\ converted_content = <<>>
    /\ marked = <<>>
    /\ url = <<>>
    /\ verdict = "none"
    /\ runs = 0
    /\ before = <<>>
    /\ trail = <<>>
    /\ src = <<>>

\* registry = load_registry(); errors = registry.validate(): a registry that
\* cannot be loaded raises into the outer handler, one with errors returns 1
LoadRegistry ==
    /\ pc = "load"
    /\ IF registry = "valid"
       THEN /\ pc' = "loop"
            /\ UNCHANGED <<ret, log>>
       ELSE /\ pc' = "done"
            /\ ret' = 1
            /\ log' = Append(log, <<"ERR", registry>>)
    /\ UNCHANGED <<doc, fs, content, marked, url, verdict, runs, before, trail,
                   src, disk, pre, item, converted_content, new_content,
                   changes_detected, check_only, registry>>

\* one turn of the loop over the generators: generate, skip an empty
\* result, find the file, compare, and report or write; an exception
\* anywhere in the turn returns 1
ForGenerator ==
    /\ pc = "loop"
    /\ item <= Len(Generators)
    /\ LET out == Generate(item, disk)
           path == FilePath(item, disk)
       IN  IF out.raised \/ (out.text # <<>> /\ disk[path].exists /\ ~disk[path].utf8)
           THEN /\ ret' = 1
                /\ pc' = "done"
                /\ log' = Append(log, <<"ERR", Generators[item].desc>>)
                /\ new_content' = out.text
                /\ UNCHANGED <<disk, item, changes_detected>>
           ELSE /\ new_content' = out.text
                /\ item' = item + 1
                /\ UNCHANGED <<ret, pc>>
                /\ IF out.text # <<>> /\ NeedsRegeneration(disk[path], out.text)
                   THEN IF check_only
                        THEN /\ changes_detected' = TRUE
                             /\ log' = Append(log, <<"ERR", Generators[item].desc>>)
                             /\ UNCHANGED disk
                        ELSE /\ disk' = [disk EXCEPT ![path] = File(out.text)]
                             /\ log' = Append(log, <<"OK", Generators[item].desc>>)
                             /\ UNCHANGED changes_detected
                   ELSE UNCHANGED <<disk, log, changes_detected>>
    /\ UNCHANGED <<doc, fs, content, marked, url, verdict, runs, before, trail,
                   src, pre, converted_content, check_only, registry>>

\* after the loop: return 1 if check_only and changes_detected, else 0
ReturnCode ==
    /\ pc = "loop"
    /\ item > Len(Generators)
    /\ ret' = IF check_only /\ changes_detected THEN 1 ELSE 0
    /\ pc' = "done"
    /\ UNCHANGED <<doc, fs, content, marked, url, verdict, runs, before, trail,
                   src, disk, pre, log, item, converted_content, new_content,
                   changes_detected, check_only, registry>>

NextGen ==
    \/ LoadRegistry
    \/ ForGenerator
    \/ ReturnCode

SpecGen == InitGen /\ [][NextGen]_vars

----------------------------------------------------------------------------
(* Vocabulary of the properties of the Link Resolver *)

\* the text with every match m replaced by rep[m]
RECURSIVE ReplaceBy(_, _, _)
ReplaceBy(s, i, rep) ==
    LET hits == { m \in DOMAIN rep : m[1] >= i }
        m == CHOOSE x \in hits : \A y \in hits : x[1] <= y[1]
    IN  IF hits = {} THEN SubSeq(s, i, Len(s))
        ELSE SubSeq(s, i, m[1] - 1) \o rep[m] \o ReplaceBy(s, m[3] + 1, rep)

\* the text with the markup of every link deleted
DeleteMatches(s) == ReplaceBy(s, 1, [m \in LinkMatches(s) |-> <<>>])

\* the line position i is on: its first and last position, its number
LineStart(s, i) == LastBefore(s, i, NL) + 1
LineEnd(s, i) == IF FirstAt(s, i, NL) = 0 THEN Len(s) ELSE FirstAt(s, i, NL) - 1
LineNo(s, i) == Cardinality({ j \in 1..(i - 1) : s[j] = NL }) + 1
LineAt(s, i) == SubSeq(s, LineStart(s, i), LineEnd(s, i))

\* the line of the match is a list item written with "-"
OnDashLine(s, m) == Strip(LineAt(s, m[1])) # <<>> /\ Strip(LineAt(s, m[1]))[1] = "-"

\* the text with the lines numbered in ks deleted, each with its newline
DropLines(s, ks) ==
    LET parts == Split(s, NL)
        kept == { k \in 1..Len(parts) : k \notin ks }
        nth(j) == CHOOSE k \in kept : Cardinality({ x \in kept : x < k }) = j - 1
    IN  Join([j \in 1..Cardinality(kept) |-> parts[nth(j)]], <<NL>>)

\* a target with a scheme, or an in-page anchor
IsSchemeOrAnchor(p) == p[1] \in {"http://", "https://", "mailto:", "#"}

\* the target is a path: it has no scheme and is no in-page anchor
IsLocal(p) == ~IsSchemeOrAnchor(p)

\* a link to a file that exists and has no Sync Map entry
IsUnsynced(s, m, files) ==
    /\ IsLocal(PathOf(s, m))
    /\ Resolve(PathOf(s, m)) \notin SyncKeys
    /\ PathOf(s, m) # <<"LICENSE">>
    /\ Resolve(PathOf(s, m)) \in files

\* a link to a path that does not exist and has no Sync Map entry
IsMissing(s, m, files) ==
    /\ IsLocal(PathOf(s, m))
    /\ Resolve(PathOf(s, m)) \notin SyncKeys
    /\ PathOf(s, m) # <<"LICENSE">>
    /\ Resolve(PathOf(s, m)) \notin files

\* the match is the only one on its line
AloneOnLine(s, m) ==
    \A x \in LinkMatches(s) : x # m => LineNo(s, x[1]) # LineNo(s, m[1])

----------------------------------------------------------------------------
(* Properties of the Link Resolver, under SpecLinks *)

\* C3: a link whose path, normalized relative to the repository root, is a
\* key of the Sync Map is replaced by [text](dest), dest the destination of
\* the entry relative to the documentation root, the display text unchanged.
C3_SyncedLinkRewritten ==
    pc = "done" =>
        \A m \in LinkMatches(doc) :
            Resolve(PathOf(doc, m)) \in SyncKeys =>
                /\ Contains(marked, Link(TextOf(doc, m), SyncDest(Resolve(PathOf(doc, m)))))
                /\ (LinkMatches(doc) = {m} =>
                      content = ReplaceBy(doc, 1,
                          [x \in {m} |-> Link(TextOf(doc, m), SyncDest(Resolve(PathOf(doc, m))))]))

\* a link whose path needs normalizing was rewritten while its source exists
C3_Witness ==
    /\ pc = "done"
    /\ fs # {}
    /\ \E m \in LinkMatches(doc) :
          /\ Resolve(PathOf(doc, m)) = <<<<"README.md">>>>
          /\ PathOf(doc, m) # <<"README.md">>
          /\ Contains(content, Link(TextOf(doc, m), <<"index.md">>))

\* C5 (as claimed): a "-" list-item line that holds a link to an existing,
\* un-synced file is absent from the output wherever it stands, and every
\* other line is unchanged.
C5_ListItemLineRemoved ==
    (/\ pc = "done"
     /\ LinkMatches(doc) # {}
     /\ \A m \in LinkMatches(doc) : IsUnsynced(doc, m, fs) /\ OnDashLine(doc, m))
    => content = DropLines(doc, { LineNo(doc, m[1]) : m \in LinkMatches(doc) })

\* C6: a link to an existing, un-synced file on a line that is no list
\* item loses its markup only; the text before and after it on the line and
\* all other lines stay.
C6_InlineRemoval ==
    pc = "done" =>
        /\ \A m \in LinkMatches(doc) :
              (IsUnsynced(doc, m, fs) /\ ~OnDashLine(doc, m) /\ AloneOnLine(doc, m)) =>
                  \E k \in 1..Len(Split(content, NL)) :
                      Split(content, NL)[k] =
                          SubSeq(doc, LineStart(doc, m[1]), m[1] - 1)
                              \o SubSeq(doc, m[3] + 1, LineEnd(doc, m[3]))
        /\ (\A m \in LinkMatches(doc) : IsUnsynced(doc, m, fs) /\ ~OnDashLine(doc, m))
              => content = DeleteMatches(doc)

\* a link in the middle of a sentence was removed and the sentence kept
C6_Witness ==
    /\ pc = "done"
    /\ \E m \in LinkMatches(doc) :
          /\ IsUnsynced(doc, m, fs)
          /\ SubSeq(doc, LineStart(doc, m[1]), m[1] - 1) = <<"See", " ">>
          /\ SubSeq(doc, m[3] + 1, LineEnd(doc, m[3])) = <<" ", "ok">>
          /\ LineNo(doc, m[1]) = 2
    /\ \E k \in 1..Len(Split(content, NL)) : Split(content, NL)[k] = <<"See", " ", " ", "ok">>

C8_PassThrough ==
    (/\ pc = "done"
     /\ LinkMatches(doc) # {}
     /\ \A m \in LinkMatches(doc) : IsSchemeOrAnchor(PathOf(doc, m)))
    => content = doc

----------------------------------------------------------------------------
(* Properties of the Badge Classifier, under SpecBadge *)

AllowListed(u) ==
    \/ Contains(Lower(u), <<"opensource", ".org">>)
    \/ Contains(Lower(u), <<"dotnet", ".microsoft", ".com">>)
    \/ Contains(Lower(u), <<"nuget", ".org">>)

\* the URL names a deny-list domain
OnDynamicDomain(u) ==
    \/ Contains(Lower(u), <<"github", ".com">>)
    \/ Contains(Lower(u), <<"codecov", ".io">>)
    \/ Contains(Lower(u), <<"scorecard", ".dev">>)

\* the URL holds a deny-list domain followed by "/"
HasDynamicPattern(u) ==
    \/ Contains(Lower(u), <<"github", ".com", "/">>)
    \/ Contains(Lower(u), <<"codecov", ".io", "/">>)
    \/ Contains(Lower(u), <<"scorecard", ".dev", "/">>)

HasShieldsKeyword(u) ==
    \/ Contains(Lower(u), <<"readthedocs">>)
    \/ Contains(Lower(u), <<"github">>)
    \/ Contains(Lower(u), <<"codecov">>)

\* C9: a URL that contains a static domain, in any letter case, is kept,
\* also when it contains a deny-list domain or an aggregator keyword.
C9_AllowListOverride ==
    (verdict # "none" /\ AllowListed(url)) => verdict = "keep"

\* a URL with an allow-list domain in capitals and a deny-list pattern was kept
C9_Witness ==
    /\ verdict = "keep"
    /\ AllowListed(url)
    /\ Lower(url) # url
    /\ HasDynamicPattern(url)

\* C10 (as claimed): every URL on a dynamic domain is removed.
C10_DenyList ==
    (verdict # "none" /\ OnDynamicDomain(url)) => verdict = "remove"

\* C10 (amended): every URL that contains github.com/, codecov.io/ or
\* scorecard.dev/ (the slash included, in any letter case) and no allow-list
\* domain is removed.
C10_DenyListUnlessAllowed ==
    (verdict # "none" /\ HasDynamicPattern(url) /\ ~AllowListed(url)) => verdict = "remove"

\* a scorecard URL and a URL with the domain in capitals were removed
C10_Witness ==
    /\ verdict = "remove"
    /\ HasDynamicPattern(url)
    /\ ~AllowListed(url)
    /\ (Lower(url) # url \/ Contains(url, <<"scorecard", ".dev", "/">>))

\* the URL names the badge aggregator
OnAggregator(u) == Contains(Lower(u), <<"shields", ".io">>)

\* C11: a URL that holds no allow-list domain and no deny-list pattern is
\* removed exactly when it names the aggregator shields.io and holds one of
\* the keywords readthedocs, github, codecov; every other such URL, the
\* empty one included, is kept.
C11_AggregatorRule ==
    (verdict # "none" /\ ~AllowListed(url) /\ ~HasDynamicPattern(url))
        => (verdict = "remove" <=> (OnAggregator(url) /\ HasShieldsKeyword(url)))

\* an aggregator URL with the documentation-build keyword was removed
C11_Witness ==
    /\ verdict = "remove"
    /\ ~AllowListed(url) /\ ~HasDynamicPattern(url)
    /\ OnAggregator(url)
    /\ Contains(url, <<"readthedocs">>)

----------------------------------------------------------------------------
(* Vocabulary of the properties of the pipeline *)

\* position i stands inside a centered block: the last block tag before it
\* opens one
InCentered(s, i) ==
    \E o \in 1..(i - 1) :
        /\ s[o] \in {DIV_CENTER, DIV_BADGES, P_CENTER}
        /\ \A k \in (o + 1)..(i - 1) : s[k] \notin {DIV_END, P_END}

\* the URLs of the badges written as an anchor around an <img: the href of
\* the anchor and the src of every image up to its </a>
HtmlBadgeUrls(s) ==
    UNION { {QuotedValue(s, i)} \cup
            { QuotedValue(s, p) : p \in { q \in i..FirstAt(s, i, A_END) : s[q] = SRC } } :
            i \in { a \in 1..Len(s) :
                      /\ s[a] \in {A_HREF, A_TARGET_HREF}
                      /\ FirstAt(s, a, A_END) # 0
                      /\ \E r \in a..FirstAt(s, a, A_END) : s[r] = IMG } }

\* the URLs of the badges written as [![alt](image)](link) in a centered block
MarkdownBadgeUrls(s) ==
    UNION { {BadgeMatch(SubSeq(s, i, Len(s)))[2], BadgeMatch(SubSeq(s, i, Len(s)))[3]} :
            i \in { a \in 1..Len(s) :
                      InCentered(s, a) /\ BadgeMatch(SubSeq(s, a, Len(s))) # <<>> } }

\* the link as the README writes it and as the site needs it
DocsLinkIn(p) == Link(<<"Docs">>, p.path \o <<"/", "README.md">>)
DocsLinkOut(p) == Link(<<"Docs">>, SyncDest(Resolve(p.path \o <<"/", "README.md">>)))

----------------------------------------------------------------------------
(* Properties of the pipeline, under SpecPipe *)

\* C1 (as claimed): running convert_github_to_mkdocs on its own output
\* returns that output unchanged.
C1_Idempotent == runs >= 2 => content = before

\* C2 (as claimed): after the pipeline has run, no badge of the output, HTML
\* anchor or markdown image in a centered block, has a link URL or an image
\* URL that is_dynamic_badge classifies as dynamic.
C2_NoDynamicBadgeLeft ==
    runs >= 1 =>
        \A u \in HtmlBadgeUrls(content) \cup MarkdownBadgeUrls(content) : ~is_dynamic_badge(u)

\* C4 (as claimed): a link [Docs](src/P/README.md) of a package P of the
\* Sync Map is in the output as [Docs](packages/<destination of P>), on
\* whatever line it stood.
C4_DocsLinkKept ==
    runs >= 1 =>
        \A p \in Packages : Contains(before, DocsLinkIn(p)) => Contains(content, DocsLinkOut(p))

----------------------------------------------------------------------------
(* Vocabulary of the properties of the Badge Filter *)

\* the matches of the badge pattern that re.sub visits, each as
\* <<first position, end of the href value, last position>>
RECURSIVE AnchorMatchesFrom(_, _)
AnchorMatchesFrom(s, i) ==
    LET j == NextMatch([k \in 1..Len(s) |-> AnchorMatch(s, k)], i)
    IN  IF j = 0 THEN {}
        ELSE {<<j, HrefEnd(s, j), AnchorMatch(s, j)>>} \cup AnchorMatchesFrom(s, AnchorMatch(s, j) + 1)

AnchorMatches(s) == AnchorMatchesFrom(s, 1)

\* the href of a matched badge and the src attribute of its image, <<>> when
\* the image has none
HrefOf(s, m) == QuotedValue(s, m[1])
SrcOf(s, m) ==
    IF \E p \in m[2]..m[3] : s[p] = SRC THEN QuotedValue(s, FirstAt(s, m[2], SRC)) ELSE <<>>

\* the positions where the pipeline badge ![CI/CD Pipeline] starts
PipelineBadgeAt(s) ==
    { i \in 1..Len(s) : i + 3 <= Len(s) /\ SubSeq(s, i, i + 3) = <<"!", "[", CI_CD, "]">> }

----------------------------------------------------------------------------
(* Properties of the Badge Filter, under SpecFilter *)

\* C12: the first substitution deletes a matched badge exactly when its
\* href or its image src is dynamic, and leaves every other matched badge,
\* and the text between the badges, as it was.
C12_RemovedIffEitherDynamic ==
    pc = "done" =>
        marked = ReplaceBy(doc, 1,
                     [m \in AnchorMatches(doc) |->
                         IF is_dynamic_badge(HrefOf(doc, m)) \/ is_dynamic_badge(SrcOf(doc, m))
                         THEN <<>> ELSE WholeOf(doc, m)])

\* a badge with a static href was removed for its image, and another badge
\* was kept
C12_Witness ==
    /\ pc = "done"
    /\ \E m \in AnchorMatches(doc) :
          /\ ~is_dynamic_badge(HrefOf(doc, m)) /\ is_dynamic_badge(SrcOf(doc, m))
          /\ ~Contains(marked, SubSeq(doc, m[1], m[2]))
    /\ \E m \in AnchorMatches(doc) :
          /\ ~is_dynamic_badge(HrefOf(doc, m)) /\ ~is_dynamic_badge(SrcOf(doc, m))
          /\ Contains(marked, WholeOf(doc, m))

\* C18 (as claimed): every line that holds the pipeline badge is absent from
\* the output as a whole line, and every other line is as the first
\* substitution left it.
C18_PipelineBadgeLineRemoved ==
    pc = "done" =>
        content = DropLines(marked, { LineNo(marked, i) : i \in PipelineBadgeAt(marked) })

----------------------------------------------------------------------------
(* Vocabulary of the properties of the Div Block Processor *)

\* the document is one centered block; Inner is what the block holds
IsOneBlock(s) ==
    /\ Len(s) >= 6
    /\ s = Centered(SubSeq(s, 3, Len(s) - 3))
    /\ \A k \in 3..(Len(s) - 3) : s[k] \notin {DIV_CENTER, DIV_END}

Inner(s) == SubSeq(s, 3, Len(s) - 3)

\* the text is one image tag and nothing else
IsOneImageTag(c) ==
    /\ At(c, 1, IMG)
    /\ FirstHasGt(c, 2) = Len(c)
    /\ \A k \in 2..Len(c) : c[k] # IMG

\* the document is made of centered blocks that hold one image tag each
OnlyLogos(s) ==
    \E n \in 1..Len(s) : \E tag \in {LogoTag} :
        s = Flatten([k \in 1..n |-> Centered(tag)])

\* the lines of a block that hold a markdown image, trimmed, and those of
\* them that are a linked image from their first character on
MarkerLines(c) ==
    SelectSeq([k \in 1..Len(Split(c, NL)) |-> Strip(Split(c, NL)[k])],
              LAMBDA line : Contains(line, <<"!", "[">>))

StrictLines(c) == SelectSeq(MarkerLines(c), LAMBDA line : BadgeMatch(line) # <<>>)

\* <a href="link"><img src="image" alt="alt"></a> of every strict line
AnchorPairs(c) ==
    [k \in 1..Len(StrictLines(c)) |->
        AnchorImg(BadgeMatch(StrictLines(c)[k])[3], BadgeMatch(StrictLines(c)[k])[2],
                  BadgeMatch(StrictLines(c)[k])[1])]

----------------------------------------------------------------------------
(* Properties of the Div Block Processor, under SpecDiv *)

\* C13 (as claimed): a document made of centered blocks that wrap one image
\* tag each comes out of the Div Block Processor as it went in.
C13_SingleImageRoundTrip ==
    (pc = "done" /\ OnlyLogos(doc)) => content = doc

\* C14 (as claimed): a centered block is re-emitted as a centered block, the
\* single-image branch, exactly when it holds one image tag and nothing
\* else.
C14_SingleImageIffOnlyTag ==
    (pc = "done" /\ IsOneBlock(doc))
        => (Contains(content, <<DIV_CENTER>>) <=> IsOneImageTag(Inner(doc)))

\* C15 (as claimed): a centered block that holds a markdown image marker
\* becomes the centered paragraph with the anchor pairs of its strict lines
\* on one line when there is such a line, and the markdown-enabled div with
\* all its marker lines when there is none.
C15_BadgeGroupShape ==
    (pc = "done" /\ IsOneBlock(doc) /\ Contains(Inner(doc), <<"!", "[">>))
        => content =
             IF StrictLines(Inner(doc)) # <<>>
             THEN <<NL, P_CENTER, NL>> \o Join(AnchorPairs(Inner(doc)), <<" ">>)
                      \o <<NL, P_END, NL, NL>>
             ELSE <<NL, DIV_BADGES, NL, NL>> \o Join(MarkerLines(Inner(doc)), <<" ">>)
                      \o <<NL, NL, DIV_END, NL, NL>>

----------------------------------------------------------------------------
(* Vocabulary of the properties of the Table Cell Reflow *)

\* what stands between <td> and </td> of a document that is one cell
CellContent(s) == SubSeq(s, 2, Len(s) - 2)

\* the visual lines of a cell: its pieces between <br/>, trimmed, the empty
\* ones dropped
CellLines(s) ==
    SelectSeq([k \in 1..Len(Split(CellContent(s), BR)) |-> Strip(Split(CellContent(s), BR)[k])],
              LAMBDA line : line # <<>>)

IsBadgeLine(line) == Contains(line, <<IMG>>)
IsDocsLine(line) == Contains(line, <<"Docs", A_END>>)

BadgeLinesOf(s) == SelectSeq(CellLines(s), IsBadgeLine)
DocsLinesOf(s) == SelectSeq(CellLines(s), IsDocsLine)

----------------------------------------------------------------------------
(* Properties of the Table Cell Reflow, under SpecTable *)

\* C16: a cell whose lines are n >= 1 badge lines and exactly one
\* documentation-link line, in any order, becomes the badge lines in their
\* order joined by single spaces, then <br/><br/>, then the
\* documentation-link line.
C16_CellReflow ==
    (/\ pc = "done"
     /\ Len(BadgeLinesOf(doc)) >= 1
     /\ Len(DocsLinesOf(doc)) = 1
     /\ Len(CellLines(doc)) = Len(BadgeLinesOf(doc)) + 1
     /\ ~IsBadgeLine(DocsLinesOf(doc)[1]))
    => content = <<TD, NL>> \o Join(BadgeLinesOf(doc), <<" ">>) \o <<BR, BR>>
                     \o DocsLinesOf(doc)[1] \o <<NL, TD_END, NL>>

\* a cell with the documentation link above two badges was reflowed
C16_Witness ==
    /\ pc = "done"
    /\ Len(BadgeLinesOf(doc)) = 2
    /\ Len(DocsLinesOf(doc)) = 1
    /\ Len(CellLines(doc)) = 3
    /\ IsDocsLine(CellLines(doc)[1])
    /\ BadgeLinesOf(doc)[1] # BadgeLinesOf(doc)[2]
    /\ content # doc

\* C17 (as claimed): a cell with one visual line, or without a badge line,
\* or with zero or several documentation-link lines keeps its content.
C17_CellUnchangedOtherwise ==
    (/\ pc = "done"
     /\ \/ Len(CellLines(doc)) <= 1
        \/ Len(BadgeLinesOf(doc)) = 0
        \/ Len(DocsLinesOf(doc)) # 1)
    => Strip(CellContent(content)) = Strip(CellContent(doc))

----------------------------------------------------------------------------
(* Properties of the pipeline and the disk, under SpecPipe *)

\* the text the Link Resolver is given: the document after the stages
\* before it
ResolverInput(s) ==
    PackageNames(TableCells(filter_badges_for_versioned_docs(PackageLinks(ProcessDivs(s)))))

\* the normalized targets of the links the Link Resolver looks up on disk:
\* those that are no URL, no in-page anchor and no key of the Sync Map
DiskTargets(s) ==
    { Resolve(LicensePath(PathOf(s, m))) :
        m \in { x \in LinkMatches(s) : ~IsExternal(PathOf(s, x)) /\ ~IsAnchor(PathOf(s, x)) } }
    \ SyncKeys

----------------------------------------------------------------------------
(* Properties of the order of the statements, under SpecStages *)

\* the text after the first n statements of the order claimed for the
\* function, the asset substitution counted as the first
AfterStages(n, s, files) ==
    CASE n <= 1 -> s
      [] n = 2  -> ProcessDivs(s)
      [] n = 3  -> PackageLinks(ProcessDivs(s))
      [] n = 4  -> filter_badges_for_versioned_docs(PackageLinks(ProcessDivs(s)))
      [] n = 5  -> TableCells(filter_badges_for_versioned_docs(PackageLinks(ProcessDivs(s))))
      [] n = 6  -> ResolverInput(s)
      [] OTHER  -> convert_markdown_links(ResolverInput(s), files)

----------------------------------------------------------------------------
(* Further properties of the Link Resolver, under SpecLinks *)

\* the end of the image reference ![alt](path) that starts at i, 0 when
\* there is none
ImageEnd(s, i) ==
    LET rb == FirstAt(s, i + 2, "]")
        rp == FirstAt(s, rb + 2, ")")
    IN  IF i + 1 > Len(s) \/ s[i] # "!" \/ s[i + 1] # "[" THEN 0
        ELSE IF rb = 0 \/ rb = i + 2 THEN 0
        ELSE IF rb + 1 > Len(s) \/ s[rb + 1] # "(" THEN 0
        ELSE IF rp = 0 \/ rp = rb + 2 THEN 0
        ELSE rp

\* the image references of the text
ImageRefs(s) == { SubSeq(s, i, ImageEnd(s, i)) : i \in { j \in 1..Len(s) : ImageEnd(s, j) # 0 } }

\* C24 (as claimed): the output holds neither removal marker, also when the
\* marked line is the last one and has no newline.
C24_NoSentinelLeft ==
    pc = "done" => \A k \in 1..Len(content) : content[k] \notin {SENT_LINE, SENT_LINK}

\* C25 (as claimed): every image reference of the input, the inner image of
\* a linked image included, is in the output as it was written.
C25_ImagesUntouched ==
    pc = "done" => \A img \in ImageRefs(doc) : Contains(content, img)

\* C26 (as claimed): every link whose normalized path is a key of the Sync
\* Map is in the output in rewritten form, whatever else its line holds.
C26_SyncedLinkSurvives ==
    pc = "done" =>
        \A m \in LinkMatches(doc) :
            Resolve(PathOf(doc, m)) \in SyncKeys =>
                Contains(content, Link(TextOf(doc, m), SyncDest(Resolve(PathOf(doc, m)))))

----------------------------------------------------------------------------
(* Further properties of the Table Cell Reflow, under SpecTable *)

\* how many times the text t stands in s
Occurrences(s, t) ==
    Cardinality({ i \in 1..(Len(s) - Len(t) + 1) : SubSeq(s, i, i + Len(t) - 1) = t })

\* C27 (as claimed): every visual line of a cell stands in the output of
\* the cell as many times as in the cell: none is dropped, none is doubled.
C27_NoLineLost ==
    pc = "done" =>
        \A k \in 1..Len(CellLines(doc)) :
            Occurrences(content, CellLines(doc)[k]) = Occurrences(doc, CellLines(doc)[k])

----------------------------------------------------------------------------
(* Further properties of the Div Block Processor, under SpecDiv *)

\* C28 (as claimed): every line of a badge group that holds a markdown
\* image is in the output of the block, as its anchor pair when it is a
\* linked image and as it was written when it is not.
C28_NoBadgeLost ==
    (/\ pc = "done"
     /\ IsOneBlock(doc)
     /\ Contains(Inner(doc), <<"!", "[">>)
     /\ ~IsSingleImage(Inner(doc)))
    => \A k \in 1..Len(MarkerLines(Inner(doc))) :
          LET line == MarkerLines(Inner(doc))[k]
          IN  IF BadgeMatch(line) # <<>>
              THEN Contains(content, AnchorImg(BadgeMatch(line)[3], BadgeMatch(line)[2],
                                               BadgeMatch(line)[1]))
              ELSE Contains(content, line)

----------------------------------------------------------------------------
(* Properties of sync_docs, under SpecSync *)

\* what the destination of the entry of key k holds after a complete run:
\* the source as it is, or the converted text of the source
FinalOf(k) ==
    IF SyncEntry(k).convert
    THEN File(convert_github_to_mkdocs(src[k].data, fs))
    ELSE src[k]

\* the message m was printed
Printed(m) == \E n \in 1..Len(log) : log[n] = m

\* how far the statement at pc is in the body of the loop
Rank(p) ==
    CASE p = "assets" -> 0
      [] p = "loop" -> 1
      [] p \in {"read", "copy"} -> 2
      [] p = "convert" -> 3
      [] p = "write" -> 4
      [] OTHER -> 5

\* a statement that moves the loop forward: to a later entry, or to a later
\* statement of the same entry
Forward ==
    \/ item' > item /\ item' <= Len(SyncOrder) + 1
    \/ item' = item /\ Rank(pc') > Rank(pc)

\* C21: a missing source costs a warning and nothing else.  A run ends
\* early only on a source that cannot be read, never on a missing one; at
\* the end of the run every entry with a missing source has its warning and
\* an untouched destination, and every entry with a source has its
\* destination written; and the run goes on to its end whichever sources
\* are missing, the root README included: until it has ended the statement
\* at pc can run (the conversion has no condition but its place), and
\* every statement moves the loop forward.
C21_MissingSourceSkipped ==
    /\ [](/\ pc = "aborted" => \E k \in SyncKeys : ~src[k].utf8
          /\ pc \in {"assets", "loop", "read", "convert", "write", "copy", "done", "aborted"}
          /\ pc = "assets" => ENABLED CopyAssets
          /\ pc = "loop" => ENABLED (ForEntry \/ SyncDone)
          /\ pc = "read" => ENABLED ReadText
          /\ pc = "write" => ENABLED WriteText
          /\ pc = "copy" => ENABLED Copy2
          /\ pc = "done" =>
                \A k \in SyncKeys :
                    IF src[k].exists
                    THEN /\ disk[SyncEntry(k).dest] = FinalOf(k)
                         /\ Printed(<<"OK", k>>)
                         /\ ~Printed(<<"WARNING", k>>)
                    ELSE /\ disk[SyncEntry(k).dest] = pre[SyncEntry(k).dest]
                         /\ Printed(<<"WARNING", k>>)
                         /\ ~Printed(<<"OK", k>>))
    /\ [][Forward]_vars

\* a run has ended with the root README and a package README missing, and
\* with the entries between them and after them written over stale files
C21_Witness ==
    /\ pc = "done"
    /\ ~src[SyncOrder[1]].exists
    /\ ~src[SyncOrder[8]].exists
    /\ src[SyncOrder[2]].exists
    /\ src[SyncOrder[9]].exists
    /\ disk[SyncEntry(SyncOrder[9]).dest] = Bytes(SyncOrder[9])
    /\ disk[SyncEntry(SyncOrder[1]).dest] = File(<<"old">>)
    /\ Printed(<<"WARNING", SyncOrder[1]>>)

\* C22: at every point of a run every destination holds what it held before
\* the run or its final content: the source as it is for an entry that is
\* copied, the whole output of convert_github_to_mkdocs for an entry that is
\* converted; after a read that failed the destination of the entry is as
\* it was.
C22_NoPartialWrite ==
    /\ \A k \in SyncKeys :
          \/ disk[SyncEntry(k).dest] = pre[SyncEntry(k).dest]
          \/ src[k].exists /\ src[k].utf8 /\ disk[SyncEntry(k).dest] = FinalOf(k)
    /\ pc = "aborted" =>
          disk[SyncEntry(SyncOrder[item]).dest] = pre[SyncEntry(SyncOrder[item]).dest]

\* the README was written, and its text differs from the text it had before
\* the run, from the source, and from the text after each of the stages
\* before the last
C22_Witness ==
    /\ pc = "done"
    /\ src[SyncOrder[1]].exists
    /\ disk[<<"index.md">>] = FinalOf(SyncOrder[1])
    /\ disk[<<"index.md">>] # pre[<<"index.md">>]
    /\ \A n \in 1..6 :
          disk[<<"index.md">>].data # AfterStages(n, src[SyncOrder[1]].data, fs)

----------------------------------------------------------------------------
(* Properties of generate_all, under SpecGen *)

\* the run was a check of a registry that validates, and has returned
CheckReturned == pc = "done" /\ check_only /\ registry = "valid"

\* a generator raised, or the file of a generator that returned text could
\* not be read
Raised(d) ==
    \E g \in 1..Len(Generators) :
        \/ Generate(g, d).raised
        \/ /\ Generate(g, d).text # <<>>
           /\ d[FilePath(g, d)].exists
           /\ ~d[FilePath(g, d)].utf8

\* C23 (as claimed): a check returns 1 exactly when the text of some
\* generator is not empty and differs from its file, a file that does not
\* exist counting as one that differs (a turn of the loop that raises is
\* granted to the claim as a difference); it returns 0 otherwise and writes
\* nothing.
C23_CheckOneIffDiffers ==
    CheckReturned =>
        /\ ret \in {0, 1}
        /\ ret = 1 <=>
              \/ Raised(pre)
              \/ \E g \in 1..Len(Generators) :
                    /\ ~Generate(g, pre).raised
                    /\ Generate(g, pre).text # <<>>
                    /\ \/ ~pre[FilePath(g, pre)].exists
                       \/ pre[FilePath(g, pre)].data # Generate(g, pre).text
        /\ disk = pre

\* C23 (amended): a check returns 1 exactly when a generator raises (the
\* root README is missing), or the file of a generator cannot be read, or
\* the text of some generator is not empty and differs from its file, which
\* exists; a file that does not exist is skipped.  It returns 0 otherwise
\* and writes nothing.
C23_CheckOneIffRaisedOrDiffers ==
    CheckReturned =>
        /\ ret \in {0, 1}
        /\ ret = 1 <=>
              \/ Raised(pre)
              \/ \E g \in 1..Len(Generators) :
                    /\ ~Generate(g, pre).raised
                    /\ Generate(g, pre).text # <<>>
                    /\ pre[FilePath(g, pre)].exists
                    /\ pre[FilePath(g, pre)].utf8
                    /\ pre[FilePath(g, pre)].data # Generate(g, pre).text
        /\ disk = pre

\* a check has returned 0 although samples/README.md, for which the
\* generator has text, does not exist; every other file is as generated
C23_Witness ==
    /\ CheckReturned
    /\ ret = 0
    /\ ~pre[SamplesPath].exists
    /\ Generate(2, pre).text # <<>>
    /\ pre[ReadmePath] = Fresh(1)
    /\ pre[RoadmapPath] = Fresh(3)

============================================================================
